---- MODULE Spec2Model ----
(***************************************************************************)
(* Persistence layer of the crew framework: the key/value memory store     *)
(* (supabase_storage.py), the task-output journal and the crew-state       *)
(* snapshots (kickoff_task_outputs_storage.py), the log sink               *)
(* (file_handler.py).  Tables live in a remote store; every operation is   *)
(* one or two blocking calls on it.                                        *)
(***************************************************************************)
EXTENDS Integers, Sequences, FiniteSets, TLC

VARIABLES
    mem,        \* the memory table: the rows in insertion order
    memNextId,  \* the next generated row id of the memory table
    now,        \* the wall clock read by the stores
    mcall,      \* the last MemoryStore call: arguments, store calls, outcome
    saved,      \* history: per key, the successful saves since the key was absent
    mstate,     \* the MemoryStore object: "none" or "ready" (constructed)
    pc,         \* concurrent callers of save: where each one stands
    pdata,      \* concurrent callers of save: the data dict each one built
    schema,     \* the tables of the backing store that exist and are accessible
    jstate,     \* the journal object: "none", "ready" (constructed) or "failed"
    results,    \* the results table: the rows in insertion order
    crew,       \* the crew_state table: the rows in insertion order
    crewNextId, \* the next generated row id of the crew_state table
    jcall,      \* the last journal call: arguments, store calls, outcome
    added,      \* history: per task_id, the last add whose fields still stand
    lstate,     \* the LogSink object: "none", "ready" (constructed) or "failed"
    logs,       \* the logs table: the rows in insertion order
    logNextId,  \* the next generated row id of the logs table
    lcall,      \* the last LogSink call: arguments, store calls, outcome
    crewResults, \* api.py: the crew_results dict of the serving process
    acall,      \* the last request served by api.py: arguments, outcome
    issued,     \* history: the successful runs of api.py, id and result, in order
    pfiles,     \* the pickle files of the working directory: path -> content
    pcall,      \* the last PickleHandler call: arguments, outcome
    plast       \* history: per path, the last write (save, initialize_file) tried

memVars == <<mem, memNextId, now, mcall, saved, mstate>>
concVars == <<pc, pdata>>
jVars == <<schema, jstate, results, crew, crewNextId, jcall, added>>
logVars == <<lstate, logs, logNextId, lcall>>
apiVars == <<crewResults, acall, issued>>
pickleVars == <<pfiles, pcall, plast>>
\* what lives in the process and on its disk, outside the backing store
localVars == <<crewResults, acall, issued, pfiles, pcall, plast>>
vars == <<mem, memNextId, now, mcall, saved, mstate, pc, pdata,
          schema, jstate, results, crew, crewNextId, jcall, added,
          lstate, logs, logNextId, lcall, crewResults, acall, issued,
          pfiles, pcall, plast>>

----------------------------------------------------------------------------
\* Bounds of the model.

\* longest string value a caller saves
MaxStrLen == 1
\* the clock stops advancing here (later calls read the same instant)
MaxTime == 1
\* rows the store generates ids for, per table
MaxIds == 2

----------------------------------------------------------------------------
\* JSON values and their text, as json.dumps / json.loads produce and read it.

StrChars == {"1", "a"}

SeqsUpTo(S, n) == UNION {[1..k -> S] : k \in 0..n}

VNull == [t |-> "null", n |-> 0, s |-> <<>>]
VBool(b) == [t |-> "bool", n |-> IF b THEN 1 ELSE 0, s |-> <<>>]
VInt(n) == [t |-> "int", n |-> n, s |-> <<>>]
VStr(s) == [t |-> "str", n |-> 0, s |-> s]
\* the empty dict {}
VEmptyObj == [t |-> "obj", n |-> 0, s |-> <<>>]

\* a value json.dumps cannot encode (a set, an object of some class)
VOpaque == [t |-> "opaque", n |-> 0, s |-> <<>>]

IntVals == {0, 12}

JsonValues ==
    {VNull, VBool(TRUE), VBool(FALSE)}
        \cup {VInt(n) : n \in IntVals}
        \cup {VStr(s) : s \in SeqsUpTo(StrChars, MaxStrLen)}

DigitChars == <<"0", "1", "2", "3", "4", "5", "6", "7", "8", "9">>

IsDigit(c) == \E d \in 1..10 : DigitChars[d] = c

DigitVal(c) == (CHOOSE d \in 1..10 : DigitChars[d] = c) - 1

RECURSIVE IntText(_)
IntText(n) ==
    IF n < 10 THEN <<DigitChars[n + 1]>>
    ELSE IntText(n \div 10) \o <<DigitChars[(n % 10) + 1]>>

RECURSIVE Escape(_)
Escape(s) ==
    IF s = <<>> THEN <<>>
    ELSE (IF Head(s) \in {"\"", "\\"} THEN <<"\\", Head(s)>> ELSE <<Head(s)>>)
             \o Escape(Tail(s))

\* json.dumps(value)
Dumps(v) ==
    CASE v.t = "null" -> <<"n", "u", "l", "l">>
      [] v.t = "bool" -> IF v.n = 1 THEN <<"t", "r", "u", "e">>
                         ELSE <<"f", "a", "l", "s", "e">>
      [] v.t = "int" -> IntText(v.n)
      [] v.t = "str" -> <<"\"">> \o Escape(v.s) \o <<"\"">>
      [] v.t = "obj" -> <<"{", "}">>

RECURSIVE TextInt(_)
TextInt(x) ==
    IF x = <<>> THEN 0
    ELSE 10 * TextInt(SubSeq(x, 1, Len(x) - 1)) + DigitVal(x[Len(x)])

IsNumber(x) ==
    /\ Len(x) >= 1
    /\ \A i \in 1..Len(x) : IsDigit(x[i])
    /\ Len(x) > 1 => x[1] # "0"

\* The body of a string literal, unescaped; Bad when it is not one.
Bad == <<"<bad>">>

RECURSIVE Unescape(_)
Unescape(x) ==
    IF x = <<>> THEN <<>>
    ELSE IF Head(x) = "\""
    THEN Bad
    ELSE IF Head(x) = "\\"
    THEN IF Len(x) >= 2 /\ x[2] \in {"\"", "\\"}
         THEN LET rest == Unescape(SubSeq(x, 3, Len(x)))
              IN  IF rest = Bad THEN Bad ELSE <<x[2]>> \o rest
         ELSE Bad
    ELSE LET rest == Unescape(Tail(x))
         IN  IF rest = Bad THEN Bad ELSE <<Head(x)>> \o rest

IsStringLit(x) ==
    /\ Len(x) >= 2
    /\ x[1] = "\""
    /\ x[Len(x)] = "\""
    /\ Unescape(SubSeq(x, 2, Len(x) - 1)) # Bad

\* Whether json.loads(text) parses (otherwise it raises JSONDecodeError).
Parses(x) ==
    \/ x \in {<<"n", "u", "l", "l">>, <<"t", "r", "u", "e">>,
              <<"f", "a", "l", "s", "e">>, <<"{", "}">>}
    \/ IsNumber(x)
    \/ IsStringLit(x)

\* json.loads(text), for a text that parses
Loads(x) ==
    CASE x = <<"n", "u", "l", "l">> -> VNull
      [] x = <<"t", "r", "u", "e">> -> VBool(TRUE)
      [] x = <<"f", "a", "l", "s", "e">> -> VBool(FALSE)
      [] x = <<"{", "}">> -> VEmptyObj
      [] IsNumber(x) -> VInt(TextInt(x))
      [] OTHER -> VStr(Unescape(SubSeq(x, 2, Len(x) - 1)))

----------------------------------------------------------------------------
\* MemoryStore (SupabaseStorage): one table, rows keyed by a generated id.

Keys == {"k1", "k2"}

MetaMaps ==
    {{}, {<<"agent", "a1">>}, {<<"agent", "a2">>},
     {<<"agent", "a1">>, <<"role", "r1">>}}

\* The metadata argument: None (given = FALSE) or a dict.
MetaArgs ==
    {[given |-> FALSE, map |-> {}]} \cup {[given |-> TRUE, map |-> m] : m \in MetaMaps}

\* What a store call can do: succeed, raise (transport, auth, schema), or
\* round-trip and report no row.
IoOutcomes == {"ok", "fail"}
InsertOutcomes == {"ok", "fail", "norow"}

\* the id clear() excludes: 00000000-0000-0000-0000-000000000000
NilId == 0

AllTables == {"crewai_memory", "results", "crew_state", "logs"}

\* An error a call ends with: its kind and the chain of causes under it
\* (raise ... from e), outermost first.
NoError == [kind |-> "none", cause |-> <<>>]

\* what execute() raises: the client's own exception (transport, auth, schema)
StoreFailure == [kind |-> "StoreError", cause |-> <<>>]

\* what json.dumps raises on a value it cannot encode
EncodeFailure == [kind |-> "TypeError", cause |-> <<>>]

\* DatabaseOperationError(error_msg, None)
BareError == [kind |-> "DatabaseOperationError", cause |-> <<>>]

\* raise DatabaseOperationError(error_msg, e) from e
Wrap(e) == [kind |-> "DatabaseOperationError", cause |-> <<e.kind>> \o e.cause]

NoJCall ==
    [op |-> "none", tid |-> "", given |-> TRUE, idx |-> 0 - 1,
     opaque |-> FALSE, client |-> FALSE, calls |-> <<>>, ios |-> <<>>,
     outcome |-> "none", err |-> NoError, nrows |-> 0, ret |-> <<>>]

\* The journal's variables while no journal is in use.
JournalIdle ==
    /\ jstate = "none"
    /\ results = <<>>
    /\ crew = <<>>
    /\ crewNextId = 1
    /\ jcall = NoJCall
    /\ added = <<>>

NoLCall ==
    [op |-> "none", given |-> TRUE, opaque |-> FALSE, client |-> FALSE,
     calls |-> <<>>, ios |-> <<>>, outcome |-> "none", err |-> NoError]

\* The log sink's variables while no log sink is in use.
LogIdle ==
    /\ lstate = "none"
    /\ logs = <<>>
    /\ logNextId = 1
    /\ lcall = NoLCall

\* crew_results = {}
EmptyDict == [i \in {} |-> 0]

NoACall ==
    [op |-> "none", crew_id |-> <<>>, fails |-> FALSE, status |-> 0, ret |-> <<>>]

\* the file names handlers are made with: a, a.pkl, b
PickleNames == {<<"a">>, <<"a", ".", "p", "k", "l">>, <<"b">>}

\* file_name.endswith(".pkl")
EndsWithPkl(name) ==
    Len(name) >= 4 /\ SubSeq(name, Len(name) - 3, Len(name)) = <<".", "p", "k", "l">>

\* self.file_path, within the working directory
FilePath(name) == IF EndsWithPkl(name) THEN name ELSE name \o <<".", "p", "k", "l">>

PicklePaths == {FilePath(name) : name \in PickleNames}

\* A file that does not exist.
NoFile == [exists |-> FALSE, bytes |-> <<>>]

NoPCall ==
    [op |-> "none", path |-> <<>>, data |-> VNull, outcome |-> "none", ret |-> VNull]

NoWrite == [kind |-> "none", data |-> VNull]

\* The request layer and the pickle files while none is in use.
LocalIdle ==
    /\ crewResults = EmptyDict
    /\ acall = NoACall
    /\ issued = <<>>
    /\ pfiles = [f \in PicklePaths |-> NoFile]
    /\ pcall = NoPCall
    /\ plast = [f \in PicklePaths |-> NoWrite]

\* The key argument of a search predicate: absent, or the key to match.
KeyArgs == {[given |-> FALSE, k |-> ""]} \cup {[given |-> TRUE, k |-> k] : k \in Keys}

\* The query dict of search(): an equality on the key field, a metadata map.
Queries == {[key |-> kq, meta |-> mq] : kq \in KeyArgs, mq \in MetaArgs}

NoQuery == [key |-> [given |-> FALSE, k |-> ""], meta |-> [given |-> FALSE, map |-> {}]]

\* The prefix argument of list_keys(): None (given = FALSE) or a string.
NoPrefix == [given |-> FALSE, p |-> <<>>]

NoCall ==
    [op |-> "none", key |-> "", opaque |-> FALSE, query |-> NoQuery, limit |-> 0,
     prefix |-> NoPrefix, calls |-> <<>>, ios |-> <<>>,
     outcome |-> "none", err |-> NoError, ret |-> VNull, nrows |-> 0]

NoSave == [has |-> FALSE, v |-> VNull, md |-> {}, over |-> FALSE]

\* What the store answers on a table: it raises when the table is not there.
StoreIo(table, io) == IF table \in schema THEN io ELSE "fail"

\* the probes _ensure_table_exists() issues: its body is pass
EnsureTableExists == <<>>

\* select(...).eq("key", key): the rows the store returns
MemMatch(tbl, k) == SelectSeq(tbl, LAMBDA r : r.key = k)

MemUpdateByKeyStampsCreation(tbl, k, data) ==
    [i \in 1..Len(tbl) |->
        IF tbl[i].key = k
        THEN [tbl[i] EXCEPT !.key = data.key, !.value = data.value,
                            !.metadata = data.metadata,
                            !.updated_at = data.updated_at,
                            !.created_at = data.updated_at]
        ELSE tbl[i]]

MemUpdateByKeyKeepsNewerStamp(tbl, k, data) ==
    [i \in 1..Len(tbl) |->
        IF tbl[i].key = k
        THEN [tbl[i] EXCEPT !.key = data.key, !.value = data.value,
                            !.metadata = data.metadata,
                            !.updated_at = IF data.updated_at > @
                                           THEN data.updated_at ELSE @]
        ELSE tbl[i]]

\* update(data).eq("key", key)
MemUpdateByKey(tbl, k, data) ==
    [i \in 1..Len(tbl) |->
        IF tbl[i].key = k
        THEN [tbl[i] EXCEPT !.key = data.key, !.value = data.value,
                            !.metadata = data.metadata,
                            !.updated_at = data.updated_at]
        ELSE tbl[i]]

\* insert(data): the store generates the id
MemInsertRow(data, id, t) ==
    [id |-> id, key |-> data.key, value |-> data.value, metadata |-> data.metadata,
     created_at |-> t, updated_at |-> data.updated_at]

\* delete().eq("key", key)
MemDeleteByKey(tbl, k) == SelectSeq(tbl, LAMBDA r : r.key # k)

\* delete().neq("id", nil uuid)
MemDeleteNotNil(tbl) == SelectSeq(tbl, LAMBDA r : ~(r.id # NilId))

SaveEncodesNothing(v) == FALSE

\* not isinstance(value, str): the values save() hands to json.dumps
SaveEncodes(v) == v.t # "str"

\* json.dumps(value) raises TypeError
DumpsRaises(v) == v.t = "opaque"

\* json.dumps(value) if not isinstance(value, str) else value
SaveValue(v) == IF SaveEncodes(v) THEN Dumps(v) ELSE v.s

\* metadata or {}
MetaOrEmpty(md) == IF md.given /\ md.map # {} THEN md.map ELSE {}

\* the data dict save() builds
SaveData(k, v, md, t) ==
    [key |-> k, value |-> SaveValue(v), metadata |-> MetaOrEmpty(md), updated_at |-> t]

LoadValueNoneOnError(x) == IF Parses(x) THEN Loads(x) ELSE VNull

\* json.loads(value), the raw value on JSONDecodeError
LoadValue(x) == IF Parses(x) THEN Loads(x) ELSE VStr(x)

LoadAnswerRaisesOnMiss(hit) ==
    IF hit # <<>>
    THEN [outcome |-> "return", err |-> NoError, ret |-> LoadValue(hit[1].value)]
    ELSE [outcome |-> "raise", err |-> [kind |-> "IndexError", cause |-> <<>>],
          ret |-> VNull]

\* if result.data: the decoded value of the first row; return None otherwise
LoadAnswer(hit) ==
    IF hit # <<>>
    THEN [outcome |-> "return", err |-> NoError, ret |-> LoadValue(hit[1].value)]
    ELSE [outcome |-> "return", err |-> NoError, ret |-> VNull]

DeleteResultAlwaysTrue(hit) == VBool(TRUE)

\* len(result.data) > 0
DeleteResult(hit) == VBool(Len(hit) > 0)

UpdateAnswerSwallowed(io, hit) == IF io = "ok" /\ hit # <<>> THEN "row" ELSE "norow"

\* What save() sees of its update: the exception execute() raised, passed on
\* to the caller, or result.data with or without a row.
UpdateAnswer(io, hit) ==
    IF io = "fail" THEN "raise" ELSE IF hit # <<>> THEN "row" ELSE "norow"

\* History: the last successful save of k wrote v and the metadata md; over = it
\* updated a record that was already there.
BumpSaved(k, v, md, over) ==
    [saved EXCEPT ![k] = [has |-> TRUE, v |-> v, md |-> md, over |-> over]]

\* __init__(supabase_url, supabase_key, table_name): the client is created and
\* _ensure_table_exists() is called.
MemConstruct ==
    /\ mstate = "none"
    /\ mstate' = "ready"
    /\ mcall' = [NoCall EXCEPT !.op = "init", !.calls = EnsureTableExists,
                               !.outcome = "return"]
    /\ UNCHANGED <<mem, memNextId, saved, now>>
    /\ UNCHANGED concVars
    /\ UNCHANGED logVars
    /\ UNCHANGED jVars
    /\ UNCHANGED localVars

\* save(key, value, metadata), one caller: update by key, insert when the
\* update returned no row.  t2 is the second reading of the clock.
Save(k, v, md, io01, io02, t2) ==
    LET io1 == StoreIo("crewai_memory", io01)
        data == SaveData(k, v, md, now)
        updated == MemUpdateByKey(mem, k, data)
        hit == MemMatch(updated, k)
        ans == UpdateAnswer(io1, hit)
        io2 == StoreIo("crewai_memory", io02)
        base == [NoCall EXCEPT !.op = "save", !.key = k, !.opaque = DumpsRaises(v)]
        both == [base EXCEPT !.calls = <<"update", "insert">>, !.ios = <<io1, io2>>]
    IN  /\ mstate = "ready"
        /\ UNCHANGED concVars
        /\ UNCHANGED logVars
        /\ UNCHANGED jVars
        /\ UNCHANGED localVars
        /\ UNCHANGED mstate
        /\ IF SaveEncodes(v) /\ DumpsRaises(v)
           THEN /\ mcall' = [base EXCEPT !.outcome = "raise", !.err = EncodeFailure]
                /\ UNCHANGED <<mem, memNextId, saved, now>>
           ELSE IF ans = "raise"
           THEN /\ mcall' = [base EXCEPT !.calls = <<"update">>, !.ios = <<io1>>,
                                         !.outcome = "raise", !.err = StoreFailure]
                /\ UNCHANGED <<mem, memNextId, saved, now>>
           ELSE IF ans = "row"
           THEN /\ mem' = updated
                /\ mcall' = [base EXCEPT !.calls = <<"update">>, !.ios = <<io1>>,
                                         !.outcome = "return", !.nrows = 1]
                /\ saved' = BumpSaved(k, v, data.metadata, TRUE)
                /\ UNCHANGED <<memNextId, now>>
           ELSE IF io2 = "fail"
           THEN /\ mcall' = [both EXCEPT !.outcome = "raise", !.err = StoreFailure]
                /\ now' = t2
                /\ UNCHANGED <<mem, memNextId, saved>>
           ELSE IF io2 = "norow"
           THEN /\ mcall' = [both EXCEPT !.outcome = "return"]
                /\ now' = t2
                /\ UNCHANGED <<mem, memNextId, saved>>
           ELSE /\ memNextId <= MaxIds
                /\ mem' = Append(mem, MemInsertRow(data, memNextId, t2))
                /\ mcall' = [both EXCEPT !.outcome = "return", !.nrows = 1]
                /\ memNextId' = memNextId + 1
                /\ now' = t2
                /\ saved' = BumpSaved(k, v, data.metadata, FALSE)

\* load(key)
Load(k, io0) ==
    LET io == StoreIo("crewai_memory", io0)
        hit == MemMatch(mem, k)
        ans == LoadAnswer(hit)
        base == [NoCall EXCEPT !.op = "load", !.key = k, !.calls = <<"select">>,
                               !.ios = <<io>>]
    IN  /\ mstate = "ready"
        /\ UNCHANGED <<mem, memNextId, saved, now>>
        /\ UNCHANGED concVars
        /\ UNCHANGED logVars
        /\ UNCHANGED jVars
        /\ UNCHANGED localVars
        /\ UNCHANGED mstate
        /\ IF io = "fail"
           THEN mcall' = [base EXCEPT !.outcome = "raise", !.err = StoreFailure]
           ELSE mcall' = [base EXCEPT !.outcome = ans.outcome, !.err = ans.err,
                                      !.ret = ans.ret, !.nrows = Len(hit)]

\* delete(key)
Delete(k, io0) ==
    LET io == StoreIo("crewai_memory", io0)
        hit == MemMatch(mem, k)
        base == [NoCall EXCEPT !.op = "delete", !.key = k, !.calls = <<"delete">>,
                               !.ios = <<io>>]
    IN  /\ mstate = "ready"
        /\ UNCHANGED <<memNextId, now>>
        /\ UNCHANGED concVars
        /\ UNCHANGED logVars
        /\ UNCHANGED jVars
        /\ UNCHANGED localVars
        /\ UNCHANGED mstate
        /\ IF io = "fail"
           THEN /\ mcall' = [base EXCEPT !.outcome = "raise", !.err = StoreFailure]
                /\ UNCHANGED <<mem, saved>>
           ELSE /\ mem' = MemDeleteByKey(mem, k)
                /\ mcall' = [base EXCEPT !.outcome = "return",
                                         !.ret = DeleteResult(hit), !.nrows = Len(hit)]
                /\ saved' = [saved EXCEPT ![k] = NoSave]

\* clear()
Clear(io0) ==
    LET io == StoreIo("crewai_memory", io0)
        base == [NoCall EXCEPT !.op = "clear", !.calls = <<"delete">>, !.ios = <<io>>]
    IN  /\ mstate = "ready"
        /\ UNCHANGED <<memNextId, now>>
        /\ UNCHANGED concVars
        /\ UNCHANGED logVars
        /\ UNCHANGED jVars
        /\ UNCHANGED localVars
        /\ UNCHANGED mstate
        /\ IF io = "fail"
           THEN /\ mcall' = [base EXCEPT !.outcome = "raise", !.err = StoreFailure]
                /\ UNCHANGED <<mem, saved>>
           ELSE /\ mem' = MemDeleteNotNil(mem)
                /\ mcall' = [base EXCEPT !.outcome = "return", !.ret = VBool(TRUE)]
                /\ saved' = [k \in DOMAIN saved |->
                                IF MemMatch(mem', k) = <<>> THEN NoSave ELSE saved[k]]

Perms(n) == {f \in [1..n -> 1..n] : \A i, j \in 1..n : i # j => f[i] # f[j]}

SearchMatchAnyEntry(r, q) ==
    /\ q.key.given => r.key = q.key.k
    /\ (q.meta.given /\ q.meta.map # {}) => \E e \in q.meta.map : e \in r.metadata

\* The filters search() adds: eq(key, value) for a plain field, and
\* eq("metadata->" + meta_key, meta_value) for every entry of the metadata map.
SearchMatch(r, q) ==
    /\ q.key.given => r.key = q.key.k
    /\ q.meta.given => \A e \in q.meta.map : e \in r.metadata

Min(a, b) == IF a <= b THEN a ELSE b

\* select("*") ... limit(limit): the store returns limit of the matching rows
\* (all of them when there are fewer), which ones and in what order being its
\* choice
SearchAnswers(tbl, q, limit) ==
    LET hits == SelectSeq(tbl, LAMBDA r : SearchMatch(r, q))
    IN  {[i \in 1..Min(limit, Len(hits)) |-> hits[f[i]]] : f \in Perms(Len(hits))}

\* search(query, limit)
Search(q, limit, io0) ==
    LET io == StoreIo("crewai_memory", io0)
        base == [NoCall EXCEPT !.op = "search", !.query = q, !.limit = limit,
                               !.calls = <<"select">>, !.ios = <<io>>]
    IN  /\ mstate = "ready"
        /\ UNCHANGED <<mem, memNextId, saved, now>>
        /\ UNCHANGED concVars
        /\ UNCHANGED logVars
        /\ UNCHANGED jVars
        /\ UNCHANGED localVars
        /\ UNCHANGED mstate
        /\ IF io = "fail"
           THEN mcall' = [base EXCEPT !.outcome = "raise", !.err = StoreFailure]
           ELSE \E rows \in SearchAnswers(mem, q, limit) :
                    mcall' = [base EXCEPT !.outcome = "return", !.ret = rows,
                                          !.nrows = Len(rows)]

NoMeta == {[given |-> FALSE, map |-> {}]}

\* The store's answers to the update and to the insert of one save(): no
\* insert follows an update that raised.
SaveAnswers == {<<"fail", "ok">>} \cup {<<"ok", io2>> : io2 \in InsertOutcomes}

MemSave == \E k \in Keys, v \in JsonValues, md \in NoMeta, io \in SaveAnswers :
               Save(k, v, md, io[1], io[2], now)

\* save() of a value json.dumps rejects
MemSaveUnencodable == \E md \in NoMeta : Save("k1", VOpaque, md, "ok", "ok", now)

MemLoad == \E k \in Keys, io \in IoOutcomes : Load(k, io)

MemDelete == \E k \in Keys, io \in IoOutcomes : Delete(k, io)

MemClear == \E io \in IoOutcomes : Clear(io)

\* The table of the store may be missing when the store is constructed.
MemInit ==
    /\ mem = <<>>
    /\ memNextId = 1
    /\ now = 0
    /\ mcall = NoCall
    /\ saved = [k \in Keys |-> NoSave]
    /\ mstate = "none"
    /\ pc = <<>>
    /\ pdata = <<>>
    /\ schema \in {AllTables, AllTables \ {"crewai_memory"}}
    /\ JournalIdle
    /\ LogIdle
    /\ LocalIdle

MemNext ==
    MemConstruct \/ MemSave \/ MemSaveUnencodable \/ MemLoad \/ MemDelete \/ MemClear

\* The memory store from its construction on, one caller at a time, against a
\* store whose schema does not change; all calls within one clock instant.
SpecMem == MemInit /\ [][MemNext]_vars

----------------------------------------------------------------------------
\* Saves with metadata, and searches on them.

\* the limits a caller passes to search(); 10 is the default
Limits == {0, 1, 10}

SearchSave == \E k \in Keys, v \in {VInt(0)}, md \in MetaArgs, io \in SaveAnswers :
                  Save(k, v, md, io[1], io[2], now)

MemSearch == \E q \in Queries, limit \in Limits, io \in IoOutcomes : Search(q, limit, io)

SearchInit ==
    /\ mem = <<>>
    /\ memNextId = 1
    /\ now = 0
    /\ mcall = NoCall
    /\ saved = [k \in Keys |-> NoSave]
    /\ mstate = "ready"
    /\ pc = <<>>
    /\ pdata = <<>>
    /\ schema = AllTables
    /\ JournalIdle
    /\ LogIdle
    /\ LocalIdle

SearchNext == SearchSave \/ MemSearch \/ MemDelete

\* A constructed memory store whose records carry metadata, one caller at a time.
SpecSearch == SearchInit /\ [][SearchNext]_vars

----------------------------------------------------------------------------
\* Saves at different instants: created_at and updated_at of the records.

\* datetime.utcnow() has advanced between two calls
MemTick ==
    /\ now < MaxTime
    /\ now' = now + 1
    /\ UNCHANGED <<mem, memNextId, mcall, saved, mstate>>
    /\ UNCHANGED concVars
    /\ UNCHANGED logVars
    /\ UNCHANGED jVars
    /\ UNCHANGED localVars

ClockMetas == {[given |-> FALSE, map |-> {}], [given |-> TRUE, map |-> {<<"agent", "a1">>}]}

\* save(): the clock is read when the data dict is built and again, at t2, when
\* created_at is set
ClockSave == \E k \in Keys, v \in {VInt(0), VStr(<<"a">>)}, md \in ClockMetas,
                io \in SaveAnswers, t2 \in now..MaxTime :
                 Save(k, v, md, io[1], io[2], t2)

ClockInit ==
    /\ mem = <<>>
    /\ memNextId = 1
    /\ now = 0
    /\ mcall = NoCall
    /\ saved = [k \in Keys |-> NoSave]
    /\ mstate = "ready"
    /\ pc = <<>>
    /\ pdata = <<>>
    /\ schema = AllTables
    /\ JournalIdle
    /\ LogIdle
    /\ LocalIdle

ClockNext == ClockSave \/ MemTick \/ MemDelete

\* A constructed memory store used over a stretch of time, one caller at a time.
SpecMemClock == ClockInit /\ [][ClockNext]_vars

----------------------------------------------------------------------------
\* Keys as texts, and list_keys() on them.

\* longest prefix a caller passes to list_keys()
MaxPrefixLen == 2

\* the keys in use, character by character: ab, a_, b
ListedKeys == {<<"a", "b">>, <<"a", "_">>, <<"b">>}

PrefixChars == {"a", "b", "_", "%"}

PrefixArgs == {NoPrefix} \cup {[given |-> TRUE, p |-> p] : p \in SeqsUpTo(PrefixChars, MaxPrefixLen)}

\* text LIKE pattern, as the store evaluates it: % stands for any run of
\* characters, _ for any one character
RECURSIVE Like(_, _)
Like(text, pat) ==
    IF pat = <<>> THEN text = <<>>
    ELSE IF Head(pat) = "%"
    THEN Like(text, Tail(pat)) \/ (text # <<>> /\ Like(Tail(text), pat))
    ELSE IF Head(pat) = "_"
    THEN text # <<>> /\ Like(Tail(text), Tail(pat))
    ELSE text # <<>> /\ Head(text) = Head(pat) /\ Like(Tail(text), Tail(pat))

\* text.startswith(prefix)
StartsWith(text, prefix) ==
    Len(prefix) <= Len(text) /\ SubSeq(text, 1, Len(prefix)) = prefix

KeysFilterLiteral(tbl, arg) ==
    IF arg.given /\ arg.p # <<>>
    THEN SelectSeq(tbl, LAMBDA r : StartsWith(r.key, arg.p))
    ELSE tbl

\* select("key"), with like("key", prefix + "%") when prefix is truthy
KeysFilter(tbl, arg) ==
    IF arg.given /\ arg.p # <<>>
    THEN SelectSeq(tbl, LAMBDA r : Like(r.key, arg.p \o <<"%">>))
    ELSE tbl

\* [record["key"] for record in result.data], the rows in the store's order
ListKeysAnswers(tbl, arg) ==
    LET hits == KeysFilter(tbl, arg)
    IN  {[i \in 1..Len(hits) |-> hits[f[i]].key] : f \in Perms(Len(hits))}

\* list_keys(prefix)
ListKeys(arg, io0) ==
    LET io == StoreIo("crewai_memory", io0)
        base == [NoCall EXCEPT !.op = "list_keys", !.prefix = arg,
                               !.calls = <<"select">>, !.ios = <<io>>]
    IN  /\ mstate = "ready"
        /\ UNCHANGED <<mem, memNextId, saved, now>>
        /\ UNCHANGED concVars
        /\ UNCHANGED logVars
        /\ UNCHANGED jVars
        /\ UNCHANGED localVars
        /\ UNCHANGED mstate
        /\ IF io = "fail"
           THEN mcall' = [base EXCEPT !.outcome = "raise", !.err = StoreFailure]
           ELSE \E keys \in ListKeysAnswers(mem, arg) :
                    mcall' = [base EXCEPT !.outcome = "return", !.ret = keys,
                                          !.nrows = Len(keys)]

KeysSave == \E k \in ListedKeys, md \in NoMeta, io \in SaveAnswers :
                Save(k, VInt(0), md, io[1], io[2], now)

KeysList == \E arg \in PrefixArgs, io \in IoOutcomes : ListKeys(arg, io)

KeysLoad == \E k \in ListedKeys, io \in IoOutcomes : Load(k, io)

KeysDelete == \E k \in ListedKeys, io \in IoOutcomes : Delete(k, io)

KeysInit ==
    /\ mem = <<>>
    /\ memNextId = 1
    /\ now = 0
    /\ mcall = NoCall
    /\ saved = [k \in ListedKeys |-> NoSave]
    /\ mstate = "ready"
    /\ pc = <<>>
    /\ pdata = <<>>
    /\ schema = AllTables
    /\ JournalIdle
    /\ LogIdle
    /\ LocalIdle

KeysNext == KeysSave \/ KeysList \/ KeysLoad \/ KeysDelete \/ MemClear

\* A constructed memory store whose keys are listed, one caller at a time.
SpecKeys == KeysInit /\ [][KeysNext]_vars

----------------------------------------------------------------------------
\* Several callers of save() on the shared connection: the update and the
\* insert of one save are two separate statements of the store.

Procs == {"p1", "p2"}

ConcValues == {VInt(0), VStr(<<"a">>)}

NoData == [key |-> "", value |-> <<>>, metadata |-> {}, updated_at |-> 0]

\* save(), up to the update's answer (lines 59-70)
CSaveUpdate(p, k, v, md, io) ==
    LET data == SaveData(k, v, md, now)
        updated == MemUpdateByKey(mem, k, data)
        hit == MemMatch(updated, k)
    IN  /\ pc[p] = "idle"
        /\ UNCHANGED <<memNextId, now, mcall, saved, mstate>>
        /\ UNCHANGED jVars
        /\ UNCHANGED localVars
        /\ UNCHANGED logVars
        /\ IF io = "fail"
           THEN UNCHANGED <<mem, pc, pdata>>
           ELSE IF hit # <<>>
           THEN /\ mem' = updated
                /\ UNCHANGED <<pc, pdata>>
           ELSE /\ pc' = [pc EXCEPT ![p] = "insert"]
                /\ pdata' = [pdata EXCEPT ![p] = data]
                /\ UNCHANGED mem

\* save(), the insert that follows an update that found no row (lines 71-74)
CSaveInsert(p, io) ==
    /\ pc[p] = "insert"
    /\ pc' = [pc EXCEPT ![p] = "idle"]
    /\ pdata' = [pdata EXCEPT ![p] = NoData]
    /\ UNCHANGED <<now, mcall, saved, mstate>>
    /\ UNCHANGED jVars
    /\ UNCHANGED localVars
    /\ UNCHANGED logVars
    /\ IF io = "ok"
       THEN /\ memNextId <= MaxIds
            /\ mem' = Append(mem, MemInsertRow(pdata[p], memNextId, now))
            /\ memNextId' = memNextId + 1
       ELSE UNCHANGED <<mem, memNextId>>

\* delete(key) by any caller
CDelete(k) ==
    /\ mem' = MemDeleteByKey(mem, k)
    /\ UNCHANGED <<memNextId, now, mcall, saved, mstate, pc, pdata>>
    /\ UNCHANGED jVars
    /\ UNCHANGED localVars
    /\ UNCHANGED logVars

ConcSaveUpdate == \E p \in Procs, k \in Keys, v \in ConcValues, md \in NoMeta,
                     io \in IoOutcomes : CSaveUpdate(p, k, v, md, io)

ConcSaveInsert == \E p \in Procs, io \in InsertOutcomes : CSaveInsert(p, io)

ConcDelete == \E k \in Keys : CDelete(k)

ConcInit ==
    /\ mem = <<>>
    /\ memNextId = 1
    /\ now = 0
    /\ mcall = NoCall
    /\ saved = [k \in Keys |-> NoSave]
    /\ mstate = "ready"
    /\ pc = [p \in Procs |-> "idle"]
    /\ pdata = [p \in Procs |-> NoData]
    /\ schema = AllTables
    /\ JournalIdle
    /\ LogIdle
    /\ LocalIdle

ConcNext == ConcSaveUpdate \/ ConcSaveInsert \/ ConcDelete

\* Concurrent callers of the memory store, interleaved statement by statement.
SpecMemConc == ConcInit /\ [][ConcNext]_vars

----------------------------------------------------------------------------
\* Properties of the memory store.

RowsOf(k) == MemMatch(mem, k)

\* C1: a load(k) that follows a successful save(k, v), with no write to k in
\* between, returns a value equal to v, for every JSON value v, strings included.
RoundTrip ==
    (mcall.op = "load" /\ mcall.outcome = "return" /\ saved[mcall.key].has)
        => mcall.ret = saved[mcall.key].v

\* C2: after save(k, v1); save(k, v2) by one caller, load(k) returns v2 and
\* exactly one row is stored for k; and no series of saves by one caller ever
\* leaves more than one row for a key.
UpsertLastValue ==
    /\ \A k \in Keys : Len(RowsOf(k)) <= 1
    /\ (mcall.op = "load" /\ mcall.outcome = "return"
            /\ saved[mcall.key].has /\ saved[mcall.key].over)
        => (mcall.ret = saved[mcall.key].v /\ Len(RowsOf(mcall.key)) = 1)

\* C3: in every reachable state of the memory table, also under interleaved
\* concurrent saves of one absent key, there is at most one record per key.
AtMostOneRowPerKey == \A k \in Keys : Len(RowsOf(k)) <= 1

\* C6: a delete(k) whose store call went through returns (never raises), returns
\* true exactly when a row for k existed, and leaves no row for k: so the first
\* delete of an existing key is true and every later one false.
DeleteTrueIffExisted ==
    [][(mcall'.op = "delete" /\ mcall'.ios = <<"ok">>) =>
          /\ mcall'.outcome = "return"
          /\ mcall'.ret = VBool(RowsOf(mcall'.key) # <<>>)
          /\ MemMatch(mem', mcall'.key) = <<>>]_vars

\* C6 witness: a delete of a stored key has returned true and removed it.
DeleteReturnedTrue ==
    /\ mcall.op = "delete"
    /\ mcall.outcome = "return"
    /\ mcall.ret = VBool(TRUE)
    /\ mcall.nrows = 1
    /\ RowsOf(mcall.key) = <<>>

----------------------------------------------------------------------------
\* TaskOutputJournal and StateSnapshotStore (KickoffTaskOutputsSupabaseStorage).

\* str(task.id) of the tasks handed to add(); the journal checks none of them
TaskIds == {"", "t1"}

\* largest task_index a caller uses
MaxIndex == 1

TaskIndexes == 0..MaxIndex

OutVals == {VInt(0), VStr(<<"a">>)}

ExpectedOutputs == {"e1"}

\* The inputs argument: None (given = FALSE) or a dict.
InputArgs == {[given |-> FALSE, v |-> VEmptyObj], [given |-> TRUE, v |-> VEmptyObj]}

\* json.loads(json.dumps(value, cls=CrewJSONEncoder))
JournalEncode(v) == Loads(Dumps(v))

\* inputs or {}
InputsOrEmpty(inp) == IF inp.given /\ inp.v # VEmptyObj THEN inp.v ELSE VEmptyObj

\* the data dict add() builds
AddData(tid, exp, out, idx, rep, inp) ==
    [task_id |-> tid, expected_output |-> exp, output |-> JournalEncode(out),
     task_index |-> idx, inputs |-> JournalEncode(InputsOrEmpty(inp)),
     was_replayed |-> rep]

ResultsMatchId(tbl, tid) == SelectSeq(tbl, LAMBDA r : r.task_id = tid)

ResultsMatchIndex(tbl, idx) == SelectSeq(tbl, LAMBDA r : r.task_index = idx)

ResultsInsert(tbl, data, t) ==
    Append(tbl, [task_id |-> data.task_id, expected_output |-> data.expected_output,
                 output |-> data.output, task_index |-> data.task_index,
                 inputs |-> data.inputs, was_replayed |-> data.was_replayed,
                 timestamp |-> t])

ResultsInsertAlways(tbl, data, t) == ResultsInsert(tbl, data, t)

\* table("results").upsert(data): task_id is the primary key; the columns of
\* data are written, timestamp keeps its value on an existing row
ResultsUpsert(tbl, data, t) ==
    IF ResultsMatchId(tbl, data.task_id) # <<>>
    THEN [i \in 1..Len(tbl) |->
            IF tbl[i].task_id = data.task_id
            THEN [tbl[i] EXCEPT !.expected_output = data.expected_output,
                                !.output = data.output,
                                !.task_index = data.task_index,
                                !.inputs = data.inputs,
                                !.was_replayed = data.was_replayed]
            ELSE tbl[i]]
    ELSE ResultsInsert(tbl, data, t)

\* The keyword arguments of update(): which fields are given, and their values.
Patches ==
    {[has_output |-> ho, output |-> IF ho THEN o ELSE VNull,
      has_replayed |-> hr, was_replayed |-> IF hr THEN b ELSE FALSE] :
        ho \in BOOLEAN, hr \in BOOLEAN, o \in OutVals, b \in BOOLEAN}
    \ {[has_output |-> FALSE, output |-> VNull,
        has_replayed |-> FALSE, was_replayed |-> FALSE]}

\* update_data: dict values are re-encoded, others pass as they are
PatchValue(v) == IF v.t = "obj" THEN JournalEncode(v) ELSE v

ApplyPatch(r, patch) ==
    [r EXCEPT !.output = IF patch.has_output THEN PatchValue(patch.output) ELSE @,
              !.was_replayed = IF patch.has_replayed THEN patch.was_replayed ELSE @]

ResultsUpsertByIndex(tbl, idx, patch) ==
    IF \E i \in 1..Len(tbl) : tbl[i].task_index = idx
    THEN [i \in 1..Len(tbl) |->
            IF tbl[i].task_index = idx THEN ApplyPatch(tbl[i], patch) ELSE tbl[i]]
    ELSE Append(tbl, ApplyPatch([task_id |-> "", expected_output |-> "",
                                 output |-> VNull, task_index |-> idx,
                                 inputs |-> VEmptyObj, was_replayed |-> FALSE,
                                 timestamp |-> 0], patch))

ResultsUpdateFirstByIndex(tbl, idx, patch) ==
    [i \in 1..Len(tbl) |->
        IF tbl[i].task_index = idx /\ (\A j \in 1..(i - 1) : tbl[j].task_index # idx)
        THEN ApplyPatch(tbl[i], patch)
        ELSE tbl[i]]

\* table("results").update(update_data).eq("task_index", task_index)
ResultsUpdateByIndex(tbl, idx, patch) ==
    [i \in 1..Len(tbl) |->
        IF tbl[i].task_index = idx THEN ApplyPatch(tbl[i], patch) ELSE tbl[i]]

InsertionOrder(tbl) == {tbl}

\* select("*").order("task_index"): every order the store may return, rows of
\* equal task_index in any order
OrderByTaskIndex(tbl) ==
    {[i \in 1..Len(tbl) |-> tbl[f[i]]] :
        f \in {g \in Perms(Len(tbl)) :
                 \A i \in 1..(Len(tbl) - 1) :
                     tbl[g[i]].task_index <= tbl[g[i + 1]].task_index}}

\* delete().neq("task_id", "")
ResultsDeleteAll(tbl) == SelectSeq(tbl, LAMBDA r : ~(r.task_id # ""))

NoAdd == [has |-> FALSE,
          data |-> AddData("", "e1", VNull, 0, FALSE,
                           [given |-> FALSE, v |-> VEmptyObj])]

ProbedResultsOnly == <<"results">>

\* the tables _initialize_tables() probes, in order
ProbedTables == <<"results", "crew_state">>

\* the probes issued until the first one that fails
RECURSIVE ProbesIssued(_)
ProbesIssued(tables) ==
    IF tables = <<>> THEN <<>>
    ELSE IF Head(tables) \in schema THEN <<Head(tables)>> \o ProbesIssued(Tail(tables))
    ELSE <<Head(tables)>>

ConfigNeverMissing(url, key) == FALSE

\* if not self.supabase_url or not self.supabase_key
ConfigMissing(url, key) == ~url \/ ~key

\* __init__(supabase_url, supabase_key): url and key say whether each is given,
\* as an argument or in the environment.  A failed probe is wrapped by
\* _initialize_tables and again by __init__.
Construct(url, key) ==
    LET probes == ProbesIssued(ProbedTables)
        base == [NoJCall EXCEPT !.op = "init", !.given = url /\ key]
        made == [base EXCEPT !.client = TRUE]
    IN  /\ jstate # "ready"
        /\ UNCHANGED <<schema, results, crew, crewNextId, added>>
        /\ UNCHANGED memVars
        /\ UNCHANGED localVars
        /\ UNCHANGED concVars
        /\ UNCHANGED logVars
        /\ IF ConfigMissing(url, key)
           THEN /\ jstate' = "failed"
                /\ jcall' = [base EXCEPT !.outcome = "raise", !.err = BareError]
           ELSE IF \A i \in 1..Len(probes) : probes[i] \in schema
           THEN /\ jstate' = "ready"
                /\ jcall' = [made EXCEPT !.calls = probes, !.outcome = "return",
                                         !.ios = [i \in 1..Len(probes) |-> "ok"]]
           ELSE /\ jstate' = "failed"
                /\ jcall' = [made EXCEPT !.calls = probes, !.outcome = "raise",
                                         !.err = Wrap(Wrap(StoreFailure)),
                                         !.ios = [i \in 1..Len(probes) |->
                                                    IF probes[i] \in schema
                                                    THEN "ok" ELSE "fail"]]

\* json.dumps(value, cls=CrewJSONEncoder) raises: the value stays unencodable
\* after the encoder's special cases
CrewDumpsRaises(v) == v.t = "opaque"

AddErrorOneCause(io) == Wrap(StoreFailure)

\* The error add() ends with when its upsert wrote nothing: the exception of
\* execute(), or add's own "no data returned" error, caught by the same
\* except clause and wrapped.
AddError(io) == Wrap(IF io = "norow" THEN BareError ELSE StoreFailure)

\* add(task, output, task_index, was_replayed, inputs)
Add(tid, exp, out, idx, rep, inp, io0) ==
    LET io == StoreIo("results", io0)
        data == AddData(tid, exp, out, idx, rep, inp)
        unenc == CrewDumpsRaises(out) \/ CrewDumpsRaises(InputsOrEmpty(inp))
        base == [NoJCall EXCEPT !.op = "add", !.tid = tid, !.idx = idx,
                                !.opaque = unenc]
        sent == [base EXCEPT !.calls = <<"upsert">>, !.ios = <<io>>]
    IN  /\ jstate = "ready"
        /\ UNCHANGED <<schema, jstate, crew, crewNextId>>
        /\ UNCHANGED memVars
        /\ UNCHANGED localVars
        /\ UNCHANGED concVars
        /\ UNCHANGED logVars
        /\ IF unenc
           THEN /\ jcall' = [base EXCEPT !.outcome = "raise",
                                         !.err = Wrap(EncodeFailure)]
                /\ UNCHANGED <<results, added>>
           ELSE IF io = "ok"
           THEN /\ results' = ResultsUpsert(results, data, now)
                /\ jcall' = [sent EXCEPT !.outcome = "return", !.nrows = 1]
                /\ added' = [added EXCEPT ![tid] = [has |-> TRUE, data |-> data]]
           ELSE /\ jcall' = [sent EXCEPT !.outcome = "raise", !.err = AddError(io)]
                /\ UNCHANGED <<results, added>>

\* update(task_index, **kwargs)
Update(idx, patch, io0) ==
    LET io == StoreIo("results", io0)
        hit == ResultsMatchIndex(results, idx)
        base == [NoJCall EXCEPT !.op = "update", !.idx = idx,
                                !.calls = <<"update">>, !.ios = <<io>>]
    IN  /\ jstate = "ready"
        /\ UNCHANGED <<schema, jstate, crew, crewNextId>>
        /\ UNCHANGED memVars
        /\ UNCHANGED localVars
        /\ UNCHANGED concVars
        /\ UNCHANGED logVars
        /\ IF io = "ok"
           THEN /\ results' = ResultsUpdateByIndex(results, idx, patch)
                /\ jcall' = [base EXCEPT !.outcome = "return", !.nrows = Len(hit)]
                /\ added' = [t \in TaskIds |->
                               IF ResultsMatchId(hit, t) # <<>>
                               THEN NoAdd
                               ELSE added[t]]
           ELSE /\ jcall' = [base EXCEPT !.outcome = "raise",
                                         !.err = Wrap(StoreFailure)]
                /\ UNCHANGED <<results, added>>

\* load()
JLoad(io0) ==
    LET io == StoreIo("results", io0)
        base == [NoJCall EXCEPT !.op = "load", !.calls = <<"select">>, !.ios = <<io>>]
    IN  /\ jstate = "ready"
        /\ UNCHANGED <<schema, jstate, results, crew, crewNextId, added>>
        /\ UNCHANGED memVars
        /\ UNCHANGED localVars
        /\ UNCHANGED concVars
        /\ UNCHANGED logVars
        /\ IF io = "ok"
           THEN \E rows \in OrderByTaskIndex(results) :
                    jcall' = [base EXCEPT !.outcome = "return", !.ret = rows,
                                          !.nrows = Len(rows)]
           ELSE jcall' = [base EXCEPT !.outcome = "raise",
                                      !.err = Wrap(StoreFailure)]

\* delete_all()
DeleteAll(io0) ==
    LET io == StoreIo("results", io0)
        base == [NoJCall EXCEPT !.op = "delete_all", !.calls = <<"delete">>,
                                !.ios = <<io>>]
    IN  /\ jstate = "ready"
        /\ UNCHANGED <<schema, jstate, crew, crewNextId>>
        /\ UNCHANGED memVars
        /\ UNCHANGED localVars
        /\ UNCHANGED concVars
        /\ UNCHANGED logVars
        /\ IF io = "ok"
           THEN /\ results' = ResultsDeleteAll(results)
                /\ jcall' = [base EXCEPT !.outcome = "return"]
                /\ added' = [t \in TaskIds |->
                               IF ResultsMatchId(results', t) = <<>>
                               THEN NoAdd
                               ELSE added[t]]
           ELSE /\ jcall' = [base EXCEPT !.outcome = "raise",
                                         !.err = Wrap(StoreFailure)]
                /\ UNCHANGED <<results, added>>

JConstruct == \E url \in BOOLEAN, key \in BOOLEAN : Construct(url, key)

\* add() of an output, or of inputs, the encoder rejects
UnencodableArgs ==
    {[out |-> VOpaque, inp |-> [given |-> FALSE, v |-> VEmptyObj]],
     [out |-> VInt(0), inp |-> [given |-> TRUE, v |-> VOpaque]]}

JAddUnencodable == \E a \in UnencodableArgs : Add("t1", "e1", a.out, 0, FALSE, a.inp, "ok")

\* add() whose upsert fails or reports no row: the record plays no part
JAddFailing == \E tid \in TaskIds, idx \in TaskIndexes, io \in InsertOutcomes \ {"ok"} :
                   Add(tid, "e1", VInt(0), idx, FALSE, [given |-> FALSE, v |-> VEmptyObj], io)

JAdd == \E tid \in TaskIds, exp \in ExpectedOutputs, out \in OutVals,
           idx \in TaskIndexes, rep \in BOOLEAN, inp \in InputArgs :
            Add(tid, exp, out, idx, rep, inp, "ok")

\* update() is also called with an index past the last one in use
JUpdate == \E idx \in 0..(MaxIndex + 1), patch \in Patches, io \in IoOutcomes :
               Update(idx, patch, io)

JLoadAll == \E io \in IoOutcomes : JLoad(io)

JDeleteAll == \E io \in IoOutcomes : DeleteAll(io)

JournalInit ==
    /\ mem = <<>>
    /\ memNextId = 1
    /\ now = 0
    /\ mcall = NoCall
    /\ saved = [k \in Keys |-> NoSave]
    /\ mstate = "none"
    /\ pc = <<>>
    /\ pdata = <<>>
    /\ LogIdle
    /\ LocalIdle
    /\ schema \in {AllTables \ miss : miss \in SUBSET {"results", "crew_state"}}
    /\ jstate = "none"
    /\ results = <<>>
    /\ crew = <<>>
    /\ crewNextId = 1
    /\ jcall = NoJCall
    /\ added = [t \in TaskIds |-> NoAdd]

JournalNext ==
    JConstruct \/ JAdd \/ JAddFailing \/ JAddUnencodable \/ JUpdate \/ JLoadAll
        \/ JDeleteAll

\* The journal from its construction on, one caller at a time, against a store
\* whose schema does not change.
SpecJournal == JournalInit /\ [][JournalNext]_vars

----------------------------------------------------------------------------
\* Crew-state snapshots.

StateVals == {VEmptyObj, VStr(<<"a">>)}

\* The task_id argument of load_crew_state / delete_crew_state: None or a string.
SnapTaskArgs ==
    {[given |-> FALSE, id |-> ""]} \cup {[given |-> TRUE, id |-> t] : t \in TaskIds}

\* if task_id:
Truthy(arg) == arg.given /\ arg.id # ""

SnapUpsertByTask(tbl, tid, state, id, t) ==
    IF \E i \in 1..Len(tbl) : tbl[i].task_id = tid
    THEN [i \in 1..Len(tbl) |->
            IF tbl[i].task_id = tid
            THEN [tbl[i] EXCEPT !.state_data = state, !.timestamp = t]
            ELSE tbl[i]]
    ELSE Append(tbl, [id |-> id, task_id |-> tid, state_data |-> state, timestamp |-> t])

\* table("crew_state").insert(data): id and timestamp are the store's defaults
SnapInsert(tbl, tid, state, id, t) ==
    Append(tbl, [id |-> id, task_id |-> tid, state_data |-> state, timestamp |-> t])

\* .eq("task_id", task_id) when task_id is truthy, every row otherwise
SnapFilter(tbl, arg) ==
    IF Truthy(arg) THEN SelectSeq(tbl, LAMBDA r : r.task_id = arg.id) ELSE tbl

\* select("*").order("timestamp"): every order the store may return
OrderByTimestamp(tbl) ==
    {[i \in 1..Len(tbl) |-> tbl[f[i]]] :
        f \in {g \in Perms(Len(tbl)) :
                 \A i \in 1..(Len(tbl) - 1) :
                     tbl[g[i]].timestamp <= tbl[g[i + 1]].timestamp}}

\* delete().eq("task_id", task_id), or delete().neq("id", "") with no task_id:
\* no generated id is the empty string
SnapDelete(tbl, arg) ==
    IF Truthy(arg) THEN SelectSeq(tbl, LAMBDA r : r.task_id # arg.id) ELSE <<>>

\* save_crew_state(task_id, state_data)
SaveCrewState(tid, state, io0) ==
    LET io == StoreIo("crew_state", io0)
        base == [NoJCall EXCEPT !.op = "save_crew_state", !.tid = tid,
                                !.calls = <<"insert">>, !.ios = <<io>>]
    IN  /\ jstate = "ready"
        /\ UNCHANGED <<schema, jstate, results, added>>
        /\ UNCHANGED memVars
        /\ UNCHANGED localVars
        /\ UNCHANGED concVars
        /\ UNCHANGED logVars
        /\ IF io = "ok"
           THEN /\ crewNextId <= MaxIds
                /\ crew' = SnapInsert(crew, tid, JournalEncode(state), crewNextId, now)
                /\ crewNextId' = crewNextId + 1
                /\ jcall' = [base EXCEPT !.outcome = "return", !.nrows = 1]
           ELSE /\ jcall' = [base EXCEPT !.outcome = "raise",
                                         !.err = Wrap(IF io = "norow" THEN BareError
                                                      ELSE StoreFailure)]
                /\ UNCHANGED <<crew, crewNextId>>

\* load_crew_state(task_id)
LoadCrewState(arg, io0) ==
    LET io == StoreIo("crew_state", io0)
        base == [NoJCall EXCEPT !.op = "load_crew_state", !.tid = arg.id,
                                !.given = arg.given,
                                !.calls = <<"select">>, !.ios = <<io>>]
    IN  /\ jstate = "ready"
        /\ UNCHANGED <<schema, jstate, results, added, crew, crewNextId>>
        /\ UNCHANGED memVars
        /\ UNCHANGED localVars
        /\ UNCHANGED concVars
        /\ UNCHANGED logVars
        /\ IF io = "ok"
           THEN \E rows \in OrderByTimestamp(SnapFilter(crew, arg)) :
                    jcall' = [base EXCEPT !.outcome = "return", !.ret = rows,
                                          !.nrows = Len(rows)]
           ELSE jcall' = [base EXCEPT !.outcome = "raise",
                                      !.err = Wrap(StoreFailure)]

\* delete_crew_state(task_id)
DeleteCrewState(arg, io0) ==
    LET io == StoreIo("crew_state", io0)
        base == [NoJCall EXCEPT !.op = "delete_crew_state", !.tid = arg.id,
                                !.given = arg.given,
                                !.calls = <<"delete">>, !.ios = <<io>>]
    IN  /\ jstate = "ready"
        /\ UNCHANGED <<schema, jstate, results, added, crewNextId>>
        /\ UNCHANGED memVars
        /\ UNCHANGED localVars
        /\ UNCHANGED concVars
        /\ UNCHANGED logVars
        /\ IF io = "ok"
           THEN /\ crew' = SnapDelete(crew, arg)
                /\ jcall' = [base EXCEPT !.outcome = "return"]
           ELSE /\ jcall' = [base EXCEPT !.outcome = "raise",
                                         !.err = Wrap(StoreFailure)]
                /\ UNCHANGED crew

\* The clock advances between two calls on the snapshots.
SnapTick ==
    /\ now < MaxTime
    /\ now' = now + 1
    /\ UNCHANGED <<mem, memNextId, mcall, saved, mstate>>
    /\ UNCHANGED concVars
    /\ UNCHANGED logVars
    /\ UNCHANGED jVars
    /\ UNCHANGED localVars

SnapSave == \E tid \in TaskIds, state \in StateVals, io \in InsertOutcomes :
                SaveCrewState(tid, state, io)

SnapLoad == \E arg \in SnapTaskArgs, io \in IoOutcomes : LoadCrewState(arg, io)

SnapDeleteSome == \E arg \in SnapTaskArgs, io \in IoOutcomes : DeleteCrewState(arg, io)

SnapInit ==
    /\ mem = <<>>
    /\ memNextId = 1
    /\ now = 0
    /\ mcall = NoCall
    /\ saved = [k \in Keys |-> NoSave]
    /\ mstate = "none"
    /\ pc = <<>>
    /\ pdata = <<>>
    /\ LogIdle
    /\ LocalIdle
    /\ schema = AllTables
    /\ jstate = "ready"
    /\ results = <<>>
    /\ crew = <<>>
    /\ crewNextId = 1
    /\ jcall = NoJCall
    /\ added = [t \in TaskIds |-> NoAdd]

SnapNext == SnapSave \/ SnapLoad \/ SnapDeleteSome \/ SnapTick

\* A constructed journal used for crew-state snapshots, one caller at a time.
SpecSnap == SnapInit /\ [][SnapNext]_vars

----------------------------------------------------------------------------
\* LogSink (FileHandler): the logs table, written and never read.

LogMessages == {"m1", "m2"}

\* The metadata keyword of log(): absent, a dict, a dict json.dumps rejects.
LogMetas ==
    {[given |-> FALSE, v |-> VNull], [given |-> TRUE, v |-> VEmptyObj],
     [given |-> TRUE, v |-> VOpaque]}

\* the table _verify_table_access() probes
LogProbedTables == <<"logs">>

\* log_entry = {"timestamp": now, **kwargs}, metadata through json.dumps/loads
LogEntry(msg, md, t) ==
    [timestamp |-> t, message |-> msg,
     metadata |-> IF md.given THEN Loads(Dumps(md.v)) ELSE VNull]

LogInsertReplacesLast(tbl, entry, id) ==
    LET row == [id |-> id, timestamp |-> entry.timestamp, message |-> entry.message,
                metadata |-> entry.metadata]
    IN  IF tbl = <<>> THEN <<row>> ELSE [tbl EXCEPT ![Len(tbl)] = row]

\* table("logs").insert(log_entry): the store generates the id
LogInsert(tbl, entry, id) ==
    Append(tbl, [id |-> id, timestamp |-> entry.timestamp, message |-> entry.message,
                 metadata |-> entry.metadata])

\* __init__(): url and key say whether SUPABASE_URL and SUPABASE_KEY are set.  A
\* failed probe is wrapped by _verify_table_access and again by __init__.
LogConstruct(url, key) ==
    LET probes == ProbesIssued(LogProbedTables)
        base == [NoLCall EXCEPT !.op = "init", !.given = url /\ key]
        made == [base EXCEPT !.client = TRUE]
    IN  /\ lstate # "ready"
        /\ UNCHANGED <<logs, logNextId>>
        /\ UNCHANGED memVars
        /\ UNCHANGED localVars
        /\ UNCHANGED concVars
        /\ UNCHANGED jVars
        /\ IF ConfigMissing(url, key)
           THEN /\ lstate' = "failed"
                /\ lcall' = [base EXCEPT !.outcome = "raise", !.err = BareError]
           ELSE IF \A i \in 1..Len(probes) : probes[i] \in schema
           THEN /\ lstate' = "ready"
                /\ lcall' = [made EXCEPT !.calls = probes, !.outcome = "return",
                                         !.ios = [i \in 1..Len(probes) |-> "ok"]]
           ELSE /\ lstate' = "failed"
                /\ lcall' = [made EXCEPT !.calls = probes, !.outcome = "raise",
                                         !.err = Wrap(Wrap(StoreFailure)),
                                         !.ios = [i \in 1..Len(probes) |->
                                                    IF probes[i] \in schema
                                                    THEN "ok" ELSE "fail"]]

\* log(**kwargs)
Log(msg, md, io0) ==
    LET io == StoreIo("logs", io0)
        unenc == md.given /\ DumpsRaises(md.v)
        base == [NoLCall EXCEPT !.op = "log", !.opaque = unenc]
        sent == [base EXCEPT !.calls = <<"insert">>, !.ios = <<io>>]
    IN  /\ lstate = "ready"
        /\ UNCHANGED lstate
        /\ UNCHANGED memVars
        /\ UNCHANGED localVars
        /\ UNCHANGED concVars
        /\ UNCHANGED jVars
        /\ IF unenc
           THEN /\ lcall' = [base EXCEPT !.outcome = "raise",
                                         !.err = Wrap(EncodeFailure)]
                /\ UNCHANGED <<logs, logNextId>>
           ELSE IF io = "ok"
           THEN /\ logNextId <= MaxIds
                /\ logs' = LogInsert(logs, LogEntry(msg, md, now), logNextId)
                /\ logNextId' = logNextId + 1
                /\ lcall' = [sent EXCEPT !.outcome = "return"]
           ELSE /\ lcall' = [sent EXCEPT !.outcome = "raise",
                                         !.err = Wrap(IF io = "norow" THEN BareError
                                                      ELSE StoreFailure)]
                /\ UNCHANGED <<logs, logNextId>>

LConstruct == \E url \in BOOLEAN, key \in BOOLEAN : LogConstruct(url, key)

LLog == \E msg \in LogMessages, md \in LogMetas, io \in InsertOutcomes : Log(msg, md, io)

LogInit ==
    /\ mem = <<>>
    /\ memNextId = 1
    /\ now = 0
    /\ mcall = NoCall
    /\ saved = [k \in Keys |-> NoSave]
    /\ mstate = "none"
    /\ pc = <<>>
    /\ pdata = <<>>
    /\ schema \in {AllTables \ miss : miss \in SUBSET {"logs", "results", "crew_state"}}
    /\ JournalIdle
    /\ LogIdle
    /\ LocalIdle

LogNext == LConstruct \/ LLog \/ JConstruct

\* One process that constructs the journal and the log sink, and logs, against
\* a store whose schema does not change.
SpecLog == LogInit /\ [][LogNext]_vars

----------------------------------------------------------------------------
\* Properties of the journal and of the snapshots.

JournalTables == {"results", "crew_state"}

\* C4: load() returns every journal record, in non-decreasing task_index order,
\* whatever adds, updates and delete_alls came before and in whatever order.
LoadAscending ==
    (jcall.op = "load" /\ jcall.outcome = "return") =>
        /\ \A i \in 1..(Len(jcall.ret) - 1) :
              jcall.ret[i].task_index <= jcall.ret[i + 1].task_index
        /\ Len(jcall.ret) = Len(results)
        /\ \A i \in 1..Len(results) : \E j \in 1..Len(jcall.ret) : jcall.ret[j] = results[i]

\* C4 witness: the record of index 1 was added before the record of index 0, and
\* load() has returned the one of index 0 first.
LoadedOutOfInsertionOrder ==
    /\ jcall.op = "load"
    /\ jcall.outcome = "return"
    /\ Len(jcall.ret) = 2
    /\ results[1].task_index = 1
    /\ results[2].task_index = 0
    /\ jcall.ret[1].task_index = 0

\* C5: the journal holds at most one record per task_id, and the record of a
\* task_id carries the fields of the most recent add for it.
AddIsUpsert ==
    /\ \A t \in TaskIds : Len(ResultsMatchId(results, t)) <= 1
    /\ \A t \in TaskIds :
          added[t].has =>
              \E i \in 1..Len(results) :
                  /\ results[i].task_id = t
                  /\ results[i].output = added[t].data.output
                  /\ results[i].task_index = added[t].data.task_index
                  /\ results[i].inputs = added[t].data.inputs
                  /\ results[i].was_replayed = added[t].data.was_replayed
                  /\ results[i].expected_output = added[t].data.expected_output

\* C5 witness: the last call was an add for the task_id of the older of two
\* records (an insert would have come last in the table): it replaced that
\* record's fields.
AddedOverExisting ==
    \E t \in TaskIds :
        /\ added[t].has
        /\ jcall.op = "add"
        /\ jcall.outcome = "return"
        /\ jcall.tid = t
        /\ Len(results) = 2
        /\ results[1].task_id = t
        /\ results[1].task_index = 1
        /\ results[2].task_index = 0

\* C7: an update whose task_index matches no row returns normally and changes
\* no record.
UpdateMissIsNoOp ==
    [][(jcall'.op = "update" /\ jcall'.ios = <<"ok">>
            /\ ResultsMatchIndex(results, jcall'.idx) = <<>>)
          => (jcall'.outcome = "return" /\ results' = results /\ crew' = crew)]_vars

\* C7 witness: update() on an index no row has returned normally, the journal
\* holding records.
UpdateMissed ==
    /\ jcall.op = "update"
    /\ jcall.outcome = "return"
    /\ jcall.nrows = 0
    /\ results # <<>>
    /\ ResultsMatchIndex(results, jcall.idx) = <<>>

\* C8: a load() right after a delete_all() returns the empty sequence, whatever
\* the journal held.
DeleteAllThenLoadEmpty ==
    [][(jcall.op = "delete_all" /\ jcall.outcome = "return"
            /\ jcall'.op = "load" /\ jcall'.outcome = "return")
          => jcall'.ret = <<>>]_vars

\* C9: save_crew_state only appends: no call but delete_crew_state changes or
\* removes a snapshot, a successful save adds one row under a fresh id, and
\* load_crew_state(task_id) returns every snapshot of the task_id, in ascending
\* timestamp order.
SnapshotsAppendOnly ==
    /\ [](\A i, j \in 1..Len(crew) : i # j => crew[i].id # crew[j].id)
    /\ []((jcall.op = "load_crew_state" /\ jcall.outcome = "return") =>
            /\ \A i \in 1..(Len(jcall.ret) - 1) :
                  jcall.ret[i].timestamp <= jcall.ret[i + 1].timestamp
            /\ \A i \in 1..Len(crew) :
                  crew[i].task_id = jcall.tid =>
                      \E j \in 1..Len(jcall.ret) : jcall.ret[j] = crew[i])
    /\ [][jcall'.op # "delete_crew_state" =>
            (Len(crew') >= Len(crew) /\ SubSeq(crew', 1, Len(crew)) = crew)]_vars
    /\ [][(jcall'.op = "save_crew_state" /\ jcall'.outcome = "return"
              /\ crewNextId' # crewNextId) =>
            /\ Len(crew') = Len(crew) + 1
            /\ crew'[Len(crew')].task_id = jcall'.tid]_vars

\* C9 witness: two snapshots of one task_id, taken at different instants, both
\* returned by load_crew_state of that task_id, the older first.
TwoSnapshotsLoaded ==
    /\ jcall.op = "load_crew_state"
    /\ jcall.outcome = "return"
    /\ jcall.tid = "t1"
    /\ Len(jcall.ret) = 2
    /\ jcall.ret[1].task_id = "t1"
    /\ jcall.ret[2].task_id = "t1"
    /\ jcall.ret[1].id # jcall.ret[2].id
    /\ jcall.ret[1].timestamp < jcall.ret[2].timestamp

\* C10: a journal is constructed only when both of its tables answered the
\* probe: with a table missing, construction raises, and no add, update, load
\* or delete_all is ever issued.
ConstructFailsOnMissingTable ==
    /\ jstate = "ready" => JournalTables \subseteq schema
    /\ (jcall.op = "init" /\ ~(JournalTables \subseteq schema)) =>
          (jcall.outcome = "raise" /\ jstate = "failed")
    /\ jcall.op \in {"add", "update", "load", "delete_all"} =>
          JournalTables \subseteq schema

\* C10 witness: the probe of the missing results table was issued and failed,
\* and construction raised.
ConstructRaisedOnProbe ==
    /\ jcall.op = "init"
    /\ jcall.outcome = "raise"
    /\ "results" \notin schema
    /\ jcall.calls = <<"results">>
    /\ jcall.ios = <<"fail">>
    /\ jstate = "failed"

----------------------------------------------------------------------------
\* Properties of construction, of failures and of encodings, over the three
\* stores.

MemOps == {"save", "load", "delete", "clear", "search"}

JournalOps ==
    {"add", "update", "load", "delete_all",
     "save_crew_state", "load_crew_state", "delete_crew_state"}

\* the error and every cause under it
Chain(e) == <<e.kind>> \o e.cause

HasFailed(ios) == \E i \in 1..Len(ios) : ios[i] = "fail"

FailedLast(ios) == \A i \in 1..Len(ios) : ios[i] = "fail" => i = Len(ios)

IsWrappedStoreError(e) ==
    /\ e.kind = "DatabaseOperationError"
    /\ \E i \in 1..Len(e.cause) : e.cause[i] = "StoreError"

\* C11: every store probes its tables when it is constructed, so that, the
\* schema not changing, no operation of a constructed MemoryStore, journal or
\* LogSink is ever issued against a missing table.
NoMissingTableMidRun ==
    /\ mcall.op \in MemOps => "crewai_memory" \in schema
    /\ jcall.op \in JournalOps => JournalTables \subseteq schema
    /\ lcall.op = "log" => "logs" \in schema

\* C12: the journal's and the log sink's construction, with the URL or the key
\* missing, raises before a client is created and before any probe is issued.
ConfigMissingFailsFirst ==
    /\ (jcall.op = "init" /\ ~jcall.given) =>
          (jcall.outcome = "raise" /\ ~jcall.client /\ jcall.calls = <<>>
              /\ jstate = "failed")
    /\ (lcall.op = "init" /\ ~lcall.given) =>
          (lcall.outcome = "raise" /\ ~lcall.client /\ lcall.calls = <<>>
              /\ lstate = "failed")

\* C12 witness: both constructions were tried without configuration, against a
\* store lacking all their tables, and both raised with no probe issued.
BothRaisedOnConfig ==
    /\ jcall.op = "init"
    /\ ~jcall.given
    /\ jcall.outcome = "raise"
    /\ lcall.op = "init"
    /\ ~lcall.given
    /\ lcall.outcome = "raise"
    /\ lcall.calls = <<>>
    /\ schema \cap {"logs", "results", "crew_state"} = {}

\* C13: an add whose upsert came back without a row raises, and its error
\* differs from the error of an add whose upsert failed in the store: the
\* latter has the store's exception under it, the former has not.
ZeroRowDistinguished ==
    /\ (jcall.op = "add" /\ jcall.ios = <<"norow">>) =>
          /\ jcall.outcome = "raise"
          /\ \A i \in 1..Len(Chain(jcall.err)) : Chain(jcall.err)[i] # "StoreError"
    /\ (jcall.op = "add" /\ jcall.ios = <<"fail">>) =>
          /\ jcall.outcome = "raise"
          /\ \E i \in 1..Len(Chain(jcall.err)) : Chain(jcall.err)[i] = "StoreError"

\* C13 witness: an add has raised on an upsert that reported no row, the error
\* carrying add's own "no data returned" error as its cause.
AddRaisedOnZeroRows ==
    /\ jcall.op = "add"
    /\ jcall.ios = <<"norow">>
    /\ jcall.outcome = "raise"
    /\ jcall.err.kind = "DatabaseOperationError"
    /\ jcall.err.cause = <<"DatabaseOperationError">>

\* C14: a write whose last store call came back without a row (save after an
\* update and an insert with no row, add, save_crew_state, log) raises.
ZeroRowWriteFails ==
    /\ (mcall.op = "save" /\ mcall.ios = <<"ok", "norow">>) => mcall.outcome = "raise"
    /\ (jcall.op \in {"add", "save_crew_state"} /\ jcall.ios = <<"norow">>) =>
          jcall.outcome = "raise"
    /\ (lcall.op = "log" /\ lcall.ios = <<"norow">>) => lcall.outcome = "raise"

OneErrorKind ==
    /\ HasFailed(mcall.ios) => IsWrappedStoreError(mcall.err)
    /\ HasFailed(jcall.ios) => IsWrappedStoreError(jcall.err)
    /\ HasFailed(lcall.ios) => IsWrappedStoreError(lcall.err)

\* C17: a load(k) that the store answered, k having no record, returns None and
\* raises nothing: on the empty table, after delete(k), after clear().
LoadMissIsNone ==
    (mcall.op = "load" /\ mcall.ios = <<"ok">> /\ RowsOf(mcall.key) = <<>>) =>
        (mcall.outcome = "return" /\ mcall.ret = VNull /\ mcall.err = NoError)

\* C17 witness: a load has returned None on a table whose records were all
\* removed.
LoadedAfterRemoval ==
    /\ mcall.op = "load"
    /\ mcall.outcome = "return"
    /\ mcall.ret = VNull
    /\ mcall.nrows = 0
    /\ mem = <<>>
    /\ memNextId > 1

\* C18: search returns stored records only, at most limit of them, each having
\* every entry of the predicate's metadata map in its metadata and the
\* predicate's key; with a limit no smaller than the table, it returns every
\* such record.
SearchFiltersAnded ==
    (mcall.op = "search" /\ mcall.outcome = "return") =>
        /\ Len(mcall.ret) <= mcall.limit
        /\ \A i \in 1..Len(mcall.ret) :
              /\ \E j \in 1..Len(mem) : mem[j] = mcall.ret[i]
              /\ mcall.query.key.given => mcall.ret[i].key = mcall.query.key.k
              /\ mcall.query.meta.given =>
                    \A e \in mcall.query.meta.map :
                        \E f \in mcall.ret[i].metadata : f[1] = e[1] /\ f[2] = e[2]
        /\ mcall.limit >= Len(mem) =>
              \A j \in 1..Len(mem) :
                  ((mcall.query.key.given => mem[j].key = mcall.query.key.k)
                      /\ (mcall.query.meta.given =>
                            mcall.query.meta.map \subseteq mem[j].metadata))
                    => \E i \in 1..Len(mcall.ret) : mcall.ret[i] = mem[j]

\* C18 witness: of two records of agent a1, a search on agent a1 and role r1 has
\* returned the one that has both entries, and only it.
SearchedOnTwoEntries ==
    /\ mcall.op = "search"
    /\ mcall.outcome = "return"
    /\ mcall.query.meta.map = {<<"agent", "a1">>, <<"role", "r1">>}
    /\ mcall.limit >= 2
    /\ Len(mem) = 2
    /\ \A j \in 1..2 : <<"agent", "a1">> \in mem[j].metadata
    /\ Len(mcall.ret) = 1

DeleteCrewStateExact ==
    [][(jcall'.op = "delete_crew_state" /\ jcall'.outcome = "return") =>
          crew' = IF jcall'.given
                  THEN SelectSeq(crew, LAMBDA r : r.task_id # jcall'.tid)
                  ELSE <<>>]_vars

----------------------------------------------------------------------------
\* Concurrent callers on rows that exist: save() on a key that has a record,
\* update() on a task_index that has one.  Each caller makes one call; the data
\* it sends is built first, the statement reaches the store later.

LwwKey == "k1"

LwwIndex == 0

\* the memory table after save("k1", 12)
LwwMem ==
    <<MemInsertRow(SaveData(LwwKey, VInt(12), [given |-> FALSE, map |-> {}], 0), 1, 0)>>

\* add(t1, "e1", 0, task_index 0)
LwwAdded ==
    AddData("t1", "e1", VInt(0), LwwIndex, FALSE, [given |-> FALSE, v |-> VEmptyObj])

\* the journal after that add
LwwResults == ResultsUpsert(<<>>, LwwAdded, 0)

NoPatch ==
    [has_output |-> FALSE, output |-> VNull, has_replayed |-> FALSE,
     was_replayed |-> FALSE]

\* What a caller holds between building its data and the store's answer.
NoSent == [call |-> "none", data |-> NoData, patch |-> NoPatch]

\* save(), the data dict (lines 59-64)
LwwSaveBuild(p, v, md) ==
    /\ pc[p] = "idle"
    /\ pc' = [pc EXCEPT ![p] = "save"]
    /\ pdata' = [pdata EXCEPT ![p] = [NoSent EXCEPT !.call = "save",
                                                    !.data = SaveData(LwwKey, v, md, now)]]
    /\ UNCHANGED memVars
    /\ UNCHANGED jVars
    /\ UNCHANGED logVars
    /\ UNCHANGED localVars

\* save(), the update statement and its answer (lines 67-74): with a row
\* returned there is no insert
LwwSaveExec(p, io) ==
    LET updated == MemUpdateByKey(mem, pdata[p].data.key, pdata[p].data)
        hit == MemMatch(updated, pdata[p].data.key)
    IN  /\ pc[p] = "save"
        /\ UNCHANGED <<memNextId, now, mcall, saved, mstate, pdata>>
        /\ UNCHANGED jVars
        /\ UNCHANGED logVars
        /\ UNCHANGED localVars
        /\ IF io = "fail"
           THEN /\ pc' = [pc EXCEPT ![p] = "raised"]
                /\ UNCHANGED mem
           ELSE /\ mem' = updated
                /\ pc' = [pc EXCEPT ![p] = IF hit # <<>> THEN "done" ELSE "insert"]

\* update(), the update_data dict (lines 157-162)
LwwPatchBuild(p, patch) ==
    /\ pc[p] = "idle"
    /\ pc' = [pc EXCEPT ![p] = "update"]
    /\ pdata' = [pdata EXCEPT ![p] = [NoSent EXCEPT !.call = "update", !.patch = patch]]
    /\ UNCHANGED memVars
    /\ UNCHANGED jVars
    /\ UNCHANGED logVars
    /\ UNCHANGED localVars

\* update(), the update statement (line 165)
LwwPatchExec(p, io) ==
    /\ pc[p] = "update"
    /\ UNCHANGED <<schema, jstate, crew, crewNextId, jcall, added, pdata>>
    /\ UNCHANGED memVars
    /\ UNCHANGED logVars
    /\ UNCHANGED localVars
    /\ IF io = "fail"
       THEN /\ pc' = [pc EXCEPT ![p] = "raised"]
            /\ UNCHANGED results
       ELSE /\ results' = ResultsUpdateByIndex(results, LwwIndex, pdata[p].patch)
            /\ pc' = [pc EXCEPT ![p] = "done"]

LwwSave == \E p \in Procs, v \in ConcValues, md \in ClockMetas : LwwSaveBuild(p, v, md)

LwwSaveSent == \E p \in Procs, io \in IoOutcomes : LwwSaveExec(p, io)

LwwPatch == \E p \in Procs, patch \in Patches : LwwPatchBuild(p, patch)

LwwPatchSent == \E p \in Procs, io \in IoOutcomes : LwwPatchExec(p, io)

LwwInit ==
    /\ mem = LwwMem
    /\ memNextId = 2
    /\ now = 0
    /\ mcall = NoCall
    /\ saved = [k \in Keys |->
                  IF k = LwwKey
                  THEN [has |-> TRUE, v |-> VInt(12), md |-> {}, over |-> FALSE]
                  ELSE NoSave]
    /\ mstate = "ready"
    /\ pc = [p \in Procs |-> "idle"]
    /\ pdata = [p \in Procs |-> NoSent]
    /\ schema = AllTables
    /\ jstate = "ready"
    /\ results = LwwResults
    /\ crew = <<>>
    /\ crewNextId = 1
    /\ jcall = NoJCall
    /\ added = [t \in TaskIds |->
                  IF t = "t1" THEN [has |-> TRUE, data |-> LwwAdded] ELSE NoAdd]
    /\ LogIdle
    /\ LocalIdle

LwwNext == LwwSave \/ LwwSaveSent \/ LwwPatch \/ LwwPatchSent \/ MemTick

\* Concurrent callers of save() and update() on existing rows, the store
\* executing one statement at a time.
SpecLww == LwwInit /\ [][LwwNext]_vars

----------------------------------------------------------------------------
\* The request layer (api.py): crew_results, a dict of the serving process.
\* Each handler runs to its end before the next request is served.

\* runs served before the model stops accepting new ones
MaxRuns == 3

Topics == {"AI Agents", "x"}

\* str(result) of the runs
RunOutputs == {"r1", "r2"}

DefaultRole == "Senior Research Analyst"

CrewIdAlwaysFirst(n) == <<"c", "r", "e", "w", "_", "0">>

\* f"crew_{len(crew_results)}"
CrewId(n) == <<"c", "r", "e", "w", "_">> \o IntText(n)

\* The ids a client asks for: those the runs get, and texts no run gets.
RequestedIds ==
    {CrewId(n) : n \in 0..MaxRuns}
        \cup {<<"c", "r", "e", "w", "_", "0", "0">>, <<"0">>, <<>>}

\* crew_results[crew_id] = record
DictSet(dict, id, rec) ==
    [i \in (DOMAIN dict) \cup {id} |-> IF i = id THEN rec ELSE dict[i]]

\* run_crew(request); fails says whether building or running the crew raised
RunCrew(topic, out, fails) ==
    LET crew_id == CrewId(Cardinality(DOMAIN crewResults))
        rec == [topic |-> topic, result |-> out, agent_role |-> DefaultRole]
        base == [NoACall EXCEPT !.op = "run_crew", !.fails = fails]
    IN  /\ Cardinality(DOMAIN crewResults) < MaxRuns
        /\ UNCHANGED memVars
        /\ UNCHANGED concVars
        /\ UNCHANGED jVars
        /\ UNCHANGED logVars
        /\ UNCHANGED pickleVars
        /\ IF fails
           THEN /\ acall' = [base EXCEPT !.status = 500]
                /\ UNCHANGED <<crewResults, issued>>
           ELSE /\ crewResults' = DictSet(crewResults, crew_id, rec)
                /\ issued' = Append(issued, [id |-> crew_id, rec |-> rec])
                /\ acall' = [base EXCEPT !.status = 200, !.crew_id = crew_id,
                                         !.ret = <<rec>>]

\* get_result_by_id(crew_id)
GetResultById(crew_id) ==
    /\ UNCHANGED <<crewResults, issued>>
    /\ UNCHANGED memVars
    /\ UNCHANGED concVars
    /\ UNCHANGED jVars
    /\ UNCHANGED logVars
    /\ UNCHANGED pickleVars
    /\ IF crew_id \notin DOMAIN crewResults
       THEN acall' = [NoACall EXCEPT !.op = "get_result_by_id", !.crew_id = crew_id,
                                     !.status = 404]
       ELSE acall' = [NoACall EXCEPT !.op = "get_result_by_id", !.crew_id = crew_id,
                                     !.status = 200, !.ret = <<crewResults[crew_id]>>]

\* get_all_results()
GetAllResults ==
    /\ UNCHANGED <<crewResults, issued>>
    /\ UNCHANGED memVars
    /\ UNCHANGED concVars
    /\ UNCHANGED jVars
    /\ UNCHANGED logVars
    /\ UNCHANGED pickleVars
    /\ acall' = [NoACall EXCEPT !.op = "get_all_results", !.status = 200,
                                !.ret = <<crewResults>>]

ApiRun == \E topic \in Topics, out \in RunOutputs, fails \in BOOLEAN :
              RunCrew(topic, out, fails)

ApiGet == \E crew_id \in RequestedIds : GetResultById(crew_id)

ApiInit ==
    /\ mem = <<>>
    /\ memNextId = 1
    /\ now = 0
    /\ mcall = NoCall
    /\ saved = [k \in Keys |-> NoSave]
    /\ mstate = "ready"
    /\ pc = <<>>
    /\ pdata = <<>>
    /\ schema = AllTables
    /\ JournalIdle
    /\ LogIdle
    /\ LocalIdle

ApiNext == ApiRun \/ ApiGet \/ GetAllResults

\* One serving process of api.py, from its start on.
SpecApi == ApiInit /\ [][ApiNext]_vars

----------------------------------------------------------------------------
\* PickleHandler: one file per handler, in the working directory.  Handlers
\* made with the names a and a.pkl share the file a.pkl.

\* the objects handed to save(): JSON-like values, and one pickle cannot dump
PickleData == JsonValues \cup {VEmptyObj, VOpaque}

\* pickle.dump raises on the object
PickleRaises(v) == v.t = "opaque"

\* The opcodes of the object, and the pickle written for it.
PickleBody(v) ==
    CASE v.t = "null" -> <<"NONE">>
      [] v.t = "bool" -> IF v.n = 1 THEN <<"NEWTRUE">> ELSE <<"NEWFALSE">>
      [] v.t = "int" -> <<"INT">> \o IntText(v.n)
      [] v.t = "str" -> <<"UNICODE">> \o v.s
      [] v.t = "obj" -> <<"EMPTY_DICT">>

\* pickle.dump(obj=data, file=f), the bytes written
PickleDumps(v) == <<"PROTO">> \o PickleBody(v) \o <<"STOP">>

\* The opcodes between the header and STOP are those of one object.
PickleBodyValid(b) ==
    \/ b \in {<<"NONE">>, <<"NEWTRUE">>, <<"NEWFALSE">>, <<"EMPTY_DICT">>}
    \/ Len(b) >= 1 /\ b[1] = "INT" /\ IsNumber(Tail(b))
    \/ Len(b) >= 1 /\ b[1] = "UNICODE"

\* What pickle.load raises on the bytes: EOFError when they end before STOP,
\* UnpicklingError when they are no pickle, nothing ("none") otherwise.
PickleLoadError(b) ==
    IF b = <<>> THEN "EOFError"
    ELSE IF b[1] # "PROTO" THEN "UnpicklingError"
    ELSE IF b[Len(b)] # "STOP" THEN "EOFError"
    ELSE IF ~PickleBodyValid(SubSeq(b, 2, Len(b) - 1)) THEN "UnpicklingError"
    ELSE "none"

\* pickle.load(file), for bytes it accepts
PickleLoads(b) ==
    LET body == SubSeq(b, 2, Len(b) - 1)
    IN  CASE body = <<"NONE">> -> VNull
          [] body = <<"NEWTRUE">> -> VBool(TRUE)
          [] body = <<"NEWFALSE">> -> VBool(FALSE)
          [] body = <<"EMPTY_DICT">> -> VEmptyObj
          [] body[1] = "INT" -> VInt(TextInt(Tail(body)))
          [] OTHER -> VStr(Tail(body))

\* What a save that raised has left of the file, which open(..., "wb") emptied:
\* nothing, or the bytes written before pickle.dump raised.
FailedWrites == {<<>>, <<"PROTO">>}

PickleLoadAnswerNoExistsCheck(f) ==
    IF ~f.exists
    THEN [outcome |-> "raise", ret |-> VNull]
    ELSE IF PickleLoadError(f.bytes) = "EOFError"
    THEN [outcome |-> "return", ret |-> VEmptyObj]
    ELSE IF PickleLoadError(f.bytes) = "none"
    THEN [outcome |-> "return", ret |-> PickleLoads(f.bytes)]
    ELSE [outcome |-> "raise", ret |-> VNull]

\* load(): {} when the file is missing or has size 0, {} on EOFError, the
\* object pickle.load returns otherwise; any other exception is raised again
PickleLoadAnswer(f) ==
    IF ~f.exists \/ Len(f.bytes) = 0
    THEN [outcome |-> "return", ret |-> VEmptyObj]
    ELSE IF PickleLoadError(f.bytes) = "EOFError"
    THEN [outcome |-> "return", ret |-> VEmptyObj]
    ELSE IF PickleLoadError(f.bytes) = "none"
    THEN [outcome |-> "return", ret |-> PickleLoads(f.bytes)]
    ELSE [outcome |-> "raise", ret |-> VNull]

\* save(data) by a handler made with name; left is what a failing pickle.dump
\* leaves in the file
PickleSave(name, data, left, op) ==
    LET path == FilePath(name)
        base == [NoPCall EXCEPT !.op = op, !.path = path, !.data = data]
    IN  /\ UNCHANGED memVars
        /\ UNCHANGED concVars
        /\ UNCHANGED jVars
        /\ UNCHANGED logVars
        /\ UNCHANGED apiVars
        /\ IF PickleRaises(data)
           THEN /\ pfiles' = [pfiles EXCEPT ![path] = [exists |-> TRUE, bytes |-> left]]
                /\ pcall' = [base EXCEPT !.outcome = "raise"]
                /\ plast' = [plast EXCEPT ![path] = [kind |-> "failed", data |-> data]]
           ELSE /\ pfiles' = [pfiles EXCEPT ![path] =
                                 [exists |-> TRUE, bytes |-> PickleDumps(data)]]
                /\ pcall' = [base EXCEPT !.outcome = "return"]
                /\ plast' = [plast EXCEPT ![path] = [kind |-> op, data |-> data]]

\* initialize_file(): self.save({})
InitializeFile(name) == PickleSave(name, VEmptyObj, <<>>, "initialize_file")

\* load() by a handler made with name
PickleLoad(name) ==
    LET path == FilePath(name)
        ans == PickleLoadAnswer(pfiles[path])
    IN  /\ UNCHANGED <<pfiles, plast>>
        /\ UNCHANGED memVars
        /\ UNCHANGED concVars
        /\ UNCHANGED jVars
        /\ UNCHANGED logVars
        /\ UNCHANGED apiVars
        /\ pcall' = [NoPCall EXCEPT !.op = "load", !.path = path,
                                    !.outcome = ans.outcome, !.ret = ans.ret]

PSave == \E name \in PickleNames, data \in PickleData, left \in FailedWrites :
             PickleSave(name, data, left, "save")

PInitializeFile == \E name \in PickleNames : InitializeFile(name)

PLoad == \E name \in PickleNames : PickleLoad(name)

PickleInit ==
    /\ mem = <<>>
    /\ memNextId = 1
    /\ now = 0
    /\ mcall = NoCall
    /\ saved = [k \in Keys |-> NoSave]
    /\ mstate = "none"
    /\ pc = <<>>
    /\ pdata = <<>>
    /\ schema = AllTables
    /\ JournalIdle
    /\ LogIdle
    /\ LocalIdle

PickleNext == PSave \/ PInitializeFile \/ PLoad

\* Handlers on the pickle files of one working directory, one call at a time.
SpecPickle == PickleInit /\ [][PickleNext]_vars

----------------------------------------------------------------------------
\* Properties of reads, of what writes leave alone, and of concurrent writers.

\* C21: load_crew_state(task_id) with a task_id given, whatever string it is,
\* returns the snapshots of that task_id and no other, in ascending timestamp
\* order; with none given, every snapshot, in ascending timestamp order.
LoadCrewStateExact ==
    (jcall.op = "load_crew_state" /\ jcall.outcome = "return") =>
        LET want == IF jcall.given
                    THEN SelectSeq(crew, LAMBDA r : r.task_id = jcall.tid)
                    ELSE crew
        IN  /\ Len(jcall.ret) = Len(want)
            /\ \A i \in 1..Len(want) : \E j \in 1..Len(jcall.ret) : jcall.ret[j] = want[i]
            /\ \A i \in 1..(Len(jcall.ret) - 1) :
                  jcall.ret[i].timestamp <= jcall.ret[i + 1].timestamp

\* C22: the logs table only grows at its end: every step leaves the events it
\* held as they were and where they were, only a log() that returned adds an
\* event, and it adds exactly one.
LogAppendOnly ==
    [][/\ Len(logs') >= Len(logs)
       /\ SubSeq(logs', 1, Len(logs)) = logs
       /\ logs' # logs =>
            (lcall'.op = "log" /\ lcall'.outcome = "return"
                /\ Len(logs') = Len(logs) + 1)
       /\ (lcall'.op = "log" /\ lcall'.outcome = "return" /\ logVars' # logVars) =>
            Len(logs') = Len(logs) + 1]_vars

\* C22 witness: a log() has returned having added a second event after the
\* first one, which is still there.
LoggedSecondEvent ==
    /\ lcall.op = "log"
    /\ lcall.outcome = "return"
    /\ Len(logs) = 2
    /\ logs[1].id = 1
    /\ logs[2].id = 2
    /\ logs[1].message # logs[2].message

\* C23: no add and no update removes a record: the task_ids present after the
\* step include those present before; and a delete_all that returned has left
\* the journal empty.
JournalOnlyBulkDeleted ==
    [][/\ jcall'.op # "delete_all" =>
            \A i \in 1..Len(results) : ResultsMatchId(results', results[i].task_id) # <<>>
       /\ (jcall'.op = "delete_all" /\ jcall'.outcome = "return") =>
            results' = <<>>]_vars

\* C24: a save that found a record of its key has written value, metadata and
\* updated_at of that record and nothing else of it, created_at staying as it
\* was; a save that found none has appended one record whose created_at is the
\* clock reading taken for the insert.  No other record changes.
CreatedAtOnlyOnInsert ==
    [][(mcall'.op = "save" /\ mcall'.outcome = "return" /\ mcall'.nrows = 1
            /\ <<mem, mcall>>' # <<mem, mcall>>) =>
          LET k == mcall'.key
              value == SaveValue(saved'[k].v)
          IN  IF RowsOf(k) # <<>>
              THEN /\ Len(mem') = Len(mem)
                   /\ \A i \in 1..Len(mem) :
                         mem'[i] = IF mem[i].key = k
                                   THEN [mem[i] EXCEPT !.value = value,
                                                       !.metadata = saved'[k].md,
                                                       !.updated_at = now]
                                   ELSE mem[i]
              ELSE /\ Len(mem') = Len(mem) + 1
                   /\ SubSeq(mem', 1, Len(mem)) = mem
                   /\ mem'[Len(mem')].key = k
                   /\ mem'[Len(mem')].value = value
                   /\ mem'[Len(mem')].metadata = saved'[k].md
                   /\ mem'[Len(mem')].updated_at = now
                   /\ mem'[Len(mem')].created_at = now']_vars

\* C24 witness: a save has updated a record created at an earlier instant, with
\* metadata: the record keeps its created_at and carries the later updated_at.
SavedOverOlderRecord ==
    /\ mcall.op = "save"
    /\ mcall.calls = <<"update">>
    /\ mcall.outcome = "return"
    /\ saved[mcall.key].over
    /\ Len(RowsOf(mcall.key)) = 1
    /\ RowsOf(mcall.key)[1].created_at = 0
    /\ RowsOf(mcall.key)[1].updated_at > 0
    /\ RowsOf(mcall.key)[1].metadata # {}

ListKeysLiteralPrefix ==
    /\ []((mcall.op = "list_keys" /\ mcall.outcome = "return") =>
            LET want == KeysFilterLiteral(mem, mcall.prefix)
            IN  /\ Len(mcall.ret) = Len(want)
                /\ {mcall.ret[i] : i \in 1..Len(mcall.ret)}
                      = {want[i].key : i \in 1..Len(want)})
    /\ [][(mcall.op = "clear" /\ mcall.outcome = "return"
              /\ mcall'.op = "list_keys" /\ mcall'.outcome = "return"
              /\ ~mcall'.prefix.given)
            => mcall'.ret = <<>>]_vars
    /\ [][(mcall.op = "clear" /\ mcall.outcome = "return"
              /\ mcall'.op = "load" /\ mcall'.outcome = "return")
            => mcall'.ret = VNull]_vars

\* the callers whose statement the store has executed
Sent == {p \in Procs : pc[p] = "done"}

\* every order in which the calls of S can run one after another
Orders(S) ==
    {o \in [1..Cardinality(S) -> S] : \A i, j \in 1..Cardinality(S) : i # j => o[i] # o[j]}

\* The record of the key and the record of the index after the calls of order
\* ran one after another, each writing the whole of what it sends.
RECURSIVE SerialRun(_, _, _)
SerialRun(order, row, rec) ==
    IF order = <<>> THEN [row |-> row, rec |-> rec]
    ELSE LET c == pdata[Head(order)]
         IN  SerialRun(Tail(order),
                       IF c.call = "save"
                       THEN [row EXCEPT !.value = c.data.value,
                                        !.metadata = c.data.metadata,
                                        !.updated_at = c.data.updated_at]
                       ELSE row,
                       IF c.call = "update"
                       THEN [rec EXCEPT !.output = IF c.patch.has_output
                                                   THEN PatchValue(c.patch.output)
                                                   ELSE @,
                                        !.was_replayed = IF c.patch.has_replayed
                                                         THEN c.patch.was_replayed
                                                         ELSE @]
                       ELSE rec)

\* C27: with concurrent saves on a key that has a record and concurrent updates
\* on one task_index, the record of the key and the record of the index are at
\* every moment what the calls executed so far give when run one after another
\* in some order, each applied whole; no record is added.
LastWriteWins ==
    \E order \in Orders(Sent) :
        /\ mem = <<SerialRun(order, LwwMem[1], LwwResults[1]).row>>
        /\ results = <<SerialRun(order, LwwMem[1], LwwResults[1]).rec>>

\* C27 witness: two saves have run; the one whose data was built first reached
\* the store last, and the record carries its value, its metadata and its
\* older updated_at.
StaleSaveWonTheRace ==
    \E p, q \in Procs :
        /\ pc[p] = "done"
        /\ pc[q] = "done"
        /\ pdata[p].call = "save"
        /\ pdata[q].call = "save"
        /\ pdata[p].data.updated_at < pdata[q].data.updated_at
        /\ pdata[p].data.value # pdata[q].data.value
        /\ mem[1].value = pdata[p].data.value
        /\ mem[1].updated_at = pdata[p].data.updated_at

\* C28: an update(task_index, fields) that returned has applied one and the
\* same patch to every record of that task_index, whatever their task_ids, has
\* left every other record and every snapshot as it was, and has added no record.
UpdatePatchesEveryMatch ==
    [][(jcall'.op = "update" /\ jcall'.outcome = "return") =>
          /\ Len(results') = Len(results)
          /\ \E patch \in Patches :
                \A i \in 1..Len(results) :
                    results'[i] = IF results[i].task_index = jcall'.idx
                                  THEN ApplyPatch(results[i], patch)
                                  ELSE results[i]
          /\ crew' = crew]_vars

\* C28 witness: an update has patched the two records of one task_index, of
\* different task_ids: both carry the patched field.
UpdatedBothRecords ==
    /\ jcall.op = "update"
    /\ jcall.outcome = "return"
    /\ jcall.nrows = 2
    /\ Len(results) = 2
    /\ results[1].task_index = jcall.idx
    /\ results[2].task_index = jcall.idx
    /\ results[1].task_id # results[2].task_id
    /\ ~added[results[1].task_id].has
    /\ ~added[results[2].task_id].has

\* the ids of the successful runs so far
IssuedIds == {issued[i].id : i \in 1..Len(issued)}

\* C29: the successful runs got pairwise different ids, crew_results holds
\* exactly their results, each as it was stored; get_result_by_id answers 404
\* for the ids no successful run got, and for the others the result stored; a
\* run that failed has stored nothing, and no request removes or replaces an
\* entry.
RunResultsKept ==
    /\ [](/\ \A i, j \in 1..Len(issued) : i # j => issued[i].id # issued[j].id
          /\ \A i \in 1..Len(issued) :
                issued[i].id = <<"c", "r", "e", "w", "_">> \o IntText(i - 1)
          /\ DOMAIN crewResults = IssuedIds
          /\ \A i \in 1..Len(issued) : crewResults[issued[i].id] = issued[i].rec
          /\ acall.op = "get_result_by_id" =>
                /\ acall.status = 404 <=> acall.crew_id \notin IssuedIds
                /\ acall.status # 404 =>
                      \E i \in 1..Len(issued) :
                          /\ issued[i].id = acall.crew_id
                          /\ acall.ret = <<issued[i].rec>>)
    /\ [][/\ (acall'.op = "run_crew" /\ acall'.fails) =>
                (acall'.status = 500 /\ crewResults' = crewResults)
          /\ \A id \in DOMAIN crewResults :
                id \in DOMAIN crewResults' /\ crewResults'[id] = crewResults[id]]_vars

\* C29 witness: two runs have stored different results under crew_0 and
\* crew_1, and a request for crew_2 has just been answered 404.
TwoResultsThenNotFound ==
    /\ acall.op = "get_result_by_id"
    /\ acall.crew_id = <<"c", "r", "e", "w", "_", "2">>
    /\ acall.status = 404
    /\ Len(issued) = 2
    /\ DOMAIN crewResults = {<<"c", "r", "e", "w", "_", "0">>, <<"c", "r", "e", "w", "_", "1">>}
    /\ issued[1].rec # issued[2].rec

\* C30: load() returns {} while the file is missing or empty; after a save(data)
\* that returned, with no later write to the file, it returns data; after an
\* initialize_file(), with no later write, it returns {}, whatever was saved
\* before.
PickleLoadLaw ==
    pcall.op = "load" =>
        /\ (~pfiles[pcall.path].exists \/ pfiles[pcall.path].bytes = <<>>) =>
              (pcall.outcome = "return" /\ pcall.ret = VEmptyObj)
        /\ plast[pcall.path].kind = "save" =>
              (pcall.outcome = "return" /\ pcall.ret = plast[pcall.path].data)
        /\ plast[pcall.path].kind = "initialize_file" =>
              (pcall.outcome = "return" /\ pcall.ret = VEmptyObj)

\* C30 witness: a handler made with the name a has loaded the string saved last
\* to a.pkl, while b.pkl, initialized after a save, is loaded as {}.
LoadedLastSaved ==
    /\ pcall.op = "load"
    /\ pcall.path = <<"a", ".", "p", "k", "l">>
    /\ pcall.outcome = "return"
    /\ pcall.ret = VStr(<<"a">>)
    /\ plast[pcall.path].kind = "save"
    /\ plast[<<"b", ".", "p", "k", "l">>].kind = "initialize_file"

====
